---- MODULE Spec2Model ----
(***************************************************************************)
(* Template scope binder of packages/compiler (render3/view/t2_binder.ts). *)
(*                                                                         *)
(* R3TargetBinder.bind runs three visitors over a template node forest:    *)
(* Scope (lexical scopes), DirectiveBinder (directive matching) and        *)
(* TemplateBinder (expression roots, symbols, nesting levels, pipes), and  *)
(* wraps their result maps in an R3BoundTarget.  The maps of the source    *)
(* are keyed by object identity; here every node, reference, variable,     *)
(* binding and AST node carries an id that stands for its identity.        *)
(***************************************************************************)
EXTENDS Integers, Sequences, FiniteSets, TLC

(***************************************************************************)
(* Bounds of the explored inputs.                                          *)
(***************************************************************************)
MaxNodes == 3      \* nodes of a forest in the scoping family
MaxDecls == 2      \* #references and let- variables declared in such a forest
MaxDirNodes == 2   \* nodes of a forest in the directive-matching family
MaxDirs == 2       \* directives the selector matcher returns for one node

VARIABLES
  target,          \* the Target handed to bind: [defined, template]
  pc,              \* position inside bind
  scope,           \* the Scope tree built by Scope.apply (t2_binder.ts:46)
  templateEntities,\* result of extractTemplateEntities (t2_binder.ts:50)
  directives,      \* DirectiveBinder result maps (t2_binder.ts:57)
  bindings,
  references,
  expressions,     \* TemplateBinder result maps (t2_binder.ts:61)
  symbols,
  nestingLevel,
  usedPipes,
  thrown,          \* message of the Error that left bind, or NoError
  bound,           \* TRUE once bind has returned an R3BoundTarget
  words,           \* the pieces of text the inputs of a Parser are made of
  callsLeft,       \* calls the run still makes on the Parser instance
  errors,          \* Parser.errors, the one array of a Parser instance (part_009:61)
  results          \* what the calls on the Parser returned so far, oldest first

vars == <<target, pc, scope, templateEntities, directives, bindings, references,
          expressions, symbols, nestingLevel, usedPipes, thrown, bound,
          words, callsLeft, errors, results>>

\* The state of the expression Parser, which bind never touches.
parserVars == <<words, callsLeft, errors, results>>

(***************************************************************************)
(* Maps.  A Map<K, V> is a function whose domain is the set of keys set so *)
(* far; Map.set overwrites.                                                *)
(***************************************************************************)
EmptyMap == << >>
MapHas(m, k) == k \in DOMAIN m
MapSet(m, k, v) == (k :> v) @@ m

(***************************************************************************)
(* Expression AST (expression_parser/ast).  `children` lists the sub-      *)
(* expressions in the order the recursive visitor walks them; for the      *)
(* property nodes children[1] is the receiver.                             *)
(***************************************************************************)
Ast(type, name, children) == [type |-> type, name |-> name, children |-> children]
NoAst == Ast("None", "", << >>)
ImplicitReceiver == Ast("ImplicitReceiver", "", << >>)
PropertyRead(receiver, name) == Ast("PropertyRead", name, <<receiver>>)
SafePropertyRead(receiver, name) == Ast("SafePropertyRead", name, <<receiver>>)
PropertyWrite(receiver, name, value) == Ast("PropertyWrite", name, <<receiver, value>>)
BindingPipe(exp, name, args) == Ast("BindingPipe", name, <<exp>> \o args)
Binary(left, right) == Ast("Binary", "+", <<left, right>>)
Interpolation(exprs) == Ast("Interpolation", "", exprs)

(***************************************************************************)
(* Template nodes (render3/r3_ast).  Node ids are positions in             *)
(* forest.nodes; parent 0 is the top level of the forest.                  *)
(***************************************************************************)
NoError == "none"
NoTemplateMessage == "Binding without a template not yet supported"
AssertionMessage == "Assertion error: child scope for [object Object] not found"

Reference(id, name, value) ==
  [type |-> "Reference", id |-> id, name |-> name, value |-> value]
Variable(id, name) ==
  [type |-> "Variable", id |-> id, name |-> name, value |-> ""]
BoundAttribute(id, name, value) ==
  [type |-> "BoundAttribute", id |-> id, name |-> name, value |-> value]
BoundEvent(id, name, handler) ==
  [type |-> "BoundEvent", id |-> id, name |-> name, value |-> handler]
TextAttribute(id, name) ==
  [type |-> "TextAttribute", id |-> id, name |-> name, value |-> NoAst]
\* A BoundText or Text that is a variable or placeholder of an Icu.
IcuText(id, type, value) ==
  [type |-> type, id |-> id, name |-> "", value |-> value]

ParentKinds == {"Element", "Template"}
LeafKinds == {"BoundText", "Icu"}

\* An Element or Template; `matched` is what the SelectorMatcher yields for it.
ParentNode(kind, parent, io, refs, variables, matched) ==
  [kind |-> kind, parent |-> parent, references |-> refs, variables |-> variables,
   inputs |-> io.inputs, outputs |-> io.outputs, attributes |-> io.attributes,
   templateAttrs |-> IF kind = "Template" THEN io.templateAttrs ELSE << >>,
   matched |-> matched, value |-> NoAst, vars |-> << >>, placeholders |-> << >>]
\* A BoundText (value) or an Icu (vars, placeholders).
LeafNode(kind, parent, value, icuVars, icuPlaceholders) ==
  [kind |-> kind, parent |-> parent, references |-> << >>, variables |-> << >>,
   inputs |-> << >>, outputs |-> << >>, attributes |-> << >>, templateAttrs |-> << >>,
   matched |-> << >>, value |-> value, vars |-> icuVars, placeholders |-> icuPlaceholders]

\* target.template is a node array, or undefined (target.defined = FALSE).
Nodes == target.template
NodeIds == DOMAIN target.template

RECURSIVE SeqOfSet(_)
SeqOfSet(S) ==
  IF S = {} THEN << >>
  ELSE LET m == CHOOSE x \in S : \A y \in S : x <= y
       IN <<m>> \o SeqOfSet(S \ {m})

\* node.children, or the top-level node array for n = 0, in document order.
Children(n) == SeqOfSet({i \in NodeIds : Nodes[i].parent = n})

(***************************************************************************)
(* Pass 1: class Scope.  The Scope objects are kept in a map `sc` from a   *)
(* scope key to its fields; the key of the root scope is 0 and the key of  *)
(* the scope created for a Template is the id of that Template.            *)
(* parentScope -1 and template 0 stand for null.                           *)
(***************************************************************************)
RootKey == 0
NullScope == -1
NullTemplate == 0

RECURSIVE ScopeVisitAll(_, _, _)
RECURSIVE ScopeDeclareAll(_, _, _)
RECURSIVE ScopeLookup(_, _, _)

\* new Scope(parentScope, template)
NewScope(parentScope, template) ==
  [namedEntities |-> EmptyMap, childScopes |-> EmptyMap,
   parentScope |-> parentScope, template |-> template]

\* A declaration that takes the name whether or not it is taken.
MaybeDeclareOverwrite(namedEntities, thing) == MapSet(namedEntities, thing.name, thing)

\* Scope.maybeDeclare, applied to the namedEntities map of one scope
MaybeDeclare(namedEntities, thing) ==
  IF ~MapHas(namedEntities, thing.name)
    THEN MapSet(namedEntities, thing.name, thing)
    ELSE namedEntities

\* Scope.visitVariable / Scope.visitReference on scope s
ScopeVisitDeclaration(sc, s, thing) ==
  [sc EXCEPT ![s].namedEntities = MaybeDeclare(@, thing)]

\* things.forEach(node => this.visitReference(node)), likewise visitVariable
ScopeDeclareAll(sc, s, things) ==
  IF things = << >> THEN sc
  ELSE ScopeDeclareAll(ScopeVisitDeclaration(sc, s, Head(things)), s, Tail(things))

\* An ingest that visits the children of a Template before its variables.
ScopeIngestChildrenFirst(sc, s, n) ==
  IF n # NullTemplate
    THEN ScopeDeclareAll(ScopeVisitAll(sc, s, Children(n)), s, Nodes[n].variables)
    ELSE ScopeVisitAll(sc, s, Children(0))

\* Scope.ingest: n = 0 is the plain node array, otherwise the Template n
ScopeIngest(sc, s, n) ==
  IF n # NullTemplate
    THEN ScopeVisitAll(ScopeDeclareAll(sc, s, Nodes[n].variables), s, Children(n))
    ELSE ScopeVisitAll(sc, s, Children(0))

\* An element visit that does not descend into the children.
ScopeVisitElementOnly(sc, s, n) == ScopeDeclareAll(sc, s, Nodes[n].references)

ScopeVisitElement(sc, s, n) ==
  ScopeVisitAll(ScopeDeclareAll(sc, s, Nodes[n].references), s, Children(n))

\* A template visit that declares the references in the new child scope.
ScopeVisitTemplateInnerReferences(sc, s, n) ==
  LET created == MapSet(sc, n, NewScope(s, n))
      declared == ScopeDeclareAll(created, n, Nodes[n].references)
      ingested == ScopeIngest(declared, n, n)
  IN [ingested EXCEPT ![s].childScopes = MapSet(@, n, n)]

ScopeVisitTemplate(sc, s, n) ==
  LET declared == ScopeDeclareAll(sc, s, Nodes[n].references)
      created == MapSet(declared, n, NewScope(s, n))
      ingested == ScopeIngest(created, n, n)
  IN [ingested EXCEPT ![s].childScopes = MapSet(@, n, n)]

\* node.visit(scope): the other visitors of Scope are empty
ScopeVisit(sc, s, n) ==
  CASE Nodes[n].kind = "Element" -> ScopeVisitElement(sc, s, n)
    [] Nodes[n].kind = "Template" -> ScopeVisitTemplate(sc, s, n)
    [] OTHER -> sc

ScopeVisitAll(sc, s, ns) ==
  IF ns = << >> THEN sc
  ELSE ScopeVisitAll(ScopeVisit(sc, s, Head(ns)), s, Tail(ns))

\* Scope.apply(template)
ScopeApply ==
  ScopeIngest(MapSet(EmptyMap, RootKey, NewScope(NullScope, NullTemplate)),
              RootKey, NullTemplate)

NullEntity == [type |-> "null", id |-> <<0, "", 0>>, name |-> "", value |-> ""]

\* A lookup that asks the parent scope before the local one.
ScopeLookupOuterFirst(sc, s, name) ==
  LET outer == IF sc[s].parentScope # NullScope
                 THEN ScopeLookup(sc, sc[s].parentScope, name)
                 ELSE NullEntity
  IN IF outer # NullEntity THEN outer
     ELSE IF MapHas(sc[s].namedEntities, name) THEN sc[s].namedEntities[name]
     ELSE NullEntity

\* Scope.lookup
ScopeLookup(sc, s, name) ==
  IF MapHas(sc[s].namedEntities, name) THEN sc[s].namedEntities[name]
  ELSE IF sc[s].parentScope # NullScope THEN ScopeLookup(sc, sc[s].parentScope, name)
  ELSE NullEntity

\* this.childScopes.get(template) in Scope.getChildScope: NullScope when undefined
ScopeGetChildScope(sc, s, template) ==
  IF MapHas(sc[s].childScopes, template) THEN sc[s].childScopes[template]
  ELSE NullScope

(***************************************************************************)
(* extractTemplateEntities.  entityMap is keyed by scope.template.         *)
(***************************************************************************)
RECURSIVE ExtractScopeEntities(_, _, _)
RECURSIVE ExtractLoop(_, _, _)

\* A merge in which the parent's entry wins.
MergeEntitiesParentFirst(parentEntities, currentEntities) ==
  [name \in (DOMAIN parentEntities) \union (DOMAIN currentEntities) |->
     IF name \in DOMAIN parentEntities THEN parentEntities[name]
     ELSE currentEntities[name]]

\* new Map([...parentEntities, ...currentEntities])
MergeEntities(parentEntities, currentEntities) ==
  [name \in (DOMAIN parentEntities) \union (DOMAIN currentEntities) |->
     IF name \in DOMAIN currentEntities THEN currentEntities[name]
     ELSE parentEntities[name]]

\* extractScopeEntities: the entityMap after the call (its return value is
\* entityMap[sc[s].template])
ExtractScopeEntities(sc, entityMap, s) ==
  IF MapHas(entityMap, sc[s].template) THEN entityMap
  ELSE IF sc[s].parentScope # NullScope
    THEN LET withParent == ExtractScopeEntities(sc, entityMap, sc[s].parentScope)
         IN MapSet(withParent, sc[s].template,
                   MergeEntities(withParent[sc[sc[s].parentScope].template],
                                 sc[s].namedEntities))
    ELSE MapSet(entityMap, sc[s].template, sc[s].namedEntities)

\* the while loop over scopesToProcess (a stack)
ExtractLoop(sc, scopesToProcess, entityMap) ==
  IF scopesToProcess = << >> THEN entityMap
  ELSE LET s == scopesToProcess[Len(scopesToProcess)]
           popped == SubSeq(scopesToProcess, 1, Len(scopesToProcess) - 1)
           kids == SeqOfSet({sc[s].childScopes[t] : t \in DOMAIN sc[s].childScopes})
       IN ExtractLoop(sc, popped \o kids, ExtractScopeEntities(sc, entityMap, s))

ExtractTemplateEntities(sc) ==
  LET entityMap == ExtractLoop(sc, <<RootKey>>, EmptyMap)
  IN [t \in DOMAIN entityMap |-> {entityMap[t][name] : name \in DOMAIN entityMap[t]}]

(***************************************************************************)
(* Pass 2: class DirectiveBinder.  `d` holds its three result maps.  A     *)
(* directive is a record of DirectiveMeta fields; exportAs null is         *)
(* [isNull |-> TRUE].  A map value that is "a directive or a node" is a    *)
(* record tagged by `kind`.                                                *)
(***************************************************************************)
RECURSIVE DirectiveVisitAll(_, _)
RECURSIVE DirectiveForEachReference(_, _, _)
RECURSIVE DirectiveForEachBinding(_, _, _, _)

DirectiveMeta(name, isComponent, exportAs, inputs, outputs) ==
  [name |-> name, isComponent |-> isComponent, exportAs |-> exportAs,
   inputs |-> inputs, outputs |-> outputs]
NullExportAs == [isNull |-> TRUE, values |-> << >>]
ExportAs(values) == [isNull |-> FALSE, values |-> values]
NoDirective == DirectiveMeta("", FALSE, NullExportAs, {}, {})

NullTarget == [kind |-> "null", directive |-> NoDirective, node |-> 0]
DirectiveOnNode(dir, n) == [kind |-> "directiveOnNode", directive |-> dir, node |-> n]
TheDirective(dir) == [kind |-> "directive", directive |-> dir, node |-> 0]
TheNode(n) == [kind |-> "node", directive |-> NoDirective, node |-> n]

\* A comparison with '' that does not trim.
TrimNothing(value) == value

\* String.prototype.trim on the reference values of the model
Trim(value) == IF value \in {"", " ", "  "} THEN "" ELSE value

\* Array.prototype.find: the index of the first element of xs among those
\* the callback accepts (`accepted`, a set of indices), 0 for undefined
Find(xs, accepted) ==
  LET hits == accepted \cap DOMAIN xs
  IN IF hits = {} THEN 0 ELSE CHOOSE k \in hits : \A j \in hits : k <= j

IsComponent(dir) == dir.isComponent
ExportsAs(dir, value) ==
  /\ ~dir.exportAs.isNull
  /\ \E k \in DOMAIN dir.exportAs.values : dir.exportAs.values[k] = value
\* A lookup that consults the inputs whatever the ioType.
HasInputPropertyName(dir, ioType, name) == name \in dir.inputs

HasBindingPropertyName(dir, ioType, name) ==
  IF ioType = "inputs" THEN name \in dir.inputs ELSE name \in dir.outputs

\* A resolution that falls back to the node when no directive exports the value.
ResolveReferenceOrNode(d, n, dirs, ref) ==
  LET found == IF Trim(ref.value) = ""
                 THEN Find(dirs, {k \in DOMAIN dirs : IsComponent(dirs[k])})
                 ELSE Find(dirs, {k \in DOMAIN dirs : ExportsAs(dirs[k], ref.value)})
  IN IF found # 0
       THEN [d EXCEPT !.references = MapSet(@, ref.id, DirectiveOnNode(dirs[found], n))]
       ELSE [d EXCEPT !.references = MapSet(@, ref.id, TheNode(n))]

\* the body of node.references.forEach(ref => ...), t2_binder.ts:310-340
ResolveReference(d, n, dirs, ref) ==
  LET found == IF Trim(ref.value) = ""
                 THEN Find(dirs, {k \in DOMAIN dirs : IsComponent(dirs[k])})
                 ELSE Find(dirs, {k \in DOMAIN dirs : ExportsAs(dirs[k], ref.value)})
  IN IF Trim(ref.value) # "" /\ found = 0
       THEN d
     ELSE IF found # 0
       THEN [d EXCEPT !.references = MapSet(@, ref.id, DirectiveOnNode(dirs[found], n))]
     ELSE [d EXCEPT !.references = MapSet(@, ref.id, TheNode(n))]

\* setAttributeBinding(attribute, ioType)
SetAttributeBinding(d, n, dirs, attribute, ioType) ==
  LET found == Find(dirs, {k \in DOMAIN dirs :
                              HasBindingPropertyName(dirs[k], ioType, attribute.name)})
      binding == IF found # 0 THEN TheDirective(dirs[found]) ELSE TheNode(n)
  IN [d EXCEPT !.bindings = MapSet(@, attribute.id, binding)]

DirectiveForEachReference(d, n, refs) ==
  IF refs = << >> THEN d
  ELSE DirectiveForEachReference(
         ResolveReference(d, n, Nodes[n].matched, Head(refs)), n, Tail(refs))

DirectiveForEachBinding(d, n, attrs, ioType) ==
  IF attrs = << >> THEN d
  ELSE DirectiveForEachBinding(
         SetAttributeBinding(d, n, Nodes[n].matched, Head(attrs), ioType),
         n, Tail(attrs), ioType)

\* DirectiveBinder.visitElementOrTemplate
VisitElementOrTemplate(d, n) ==
  LET dirs == Nodes[n].matched
      d1 == IF Len(dirs) > 0
              THEN [d EXCEPT !.directives = MapSet(@, n, dirs)]
              ELSE d
      d2 == DirectiveForEachReference(d1, n, Nodes[n].references)
      d3 == DirectiveForEachBinding(d2, n, Nodes[n].inputs, "inputs")
      d4 == DirectiveForEachBinding(d3, n, Nodes[n].attributes, "inputs")
      d5 == IF Nodes[n].kind = "Template"
              THEN DirectiveForEachBinding(d4, n, Nodes[n].templateAttrs, "inputs")
              ELSE d4
      d6 == DirectiveForEachBinding(d5, n, Nodes[n].outputs, "outputs")
  IN DirectiveVisitAll(d6, Children(n))

\* node.visit(directiveBinder): only elements and templates are processed
DirectiveVisit(d, n) ==
  IF Nodes[n].kind \in ParentKinds THEN VisitElementOrTemplate(d, n) ELSE d

DirectiveVisitAll(d, ns) ==
  IF ns = << >> THEN d
  ELSE DirectiveVisitAll(DirectiveVisit(d, Head(ns)), Tail(ns))

\* DirectiveBinder.apply(template, selectorMatcher)
DirectiveBinderApply ==
  DirectiveVisitAll(
    [directives |-> EmptyMap, bindings |-> EmptyMap, references |-> EmptyMap],
    Children(0))

(***************************************************************************)
(* Pass 3: class TemplateBinder.  `b` holds the four result maps shared by *)
(* all binders plus the Error in flight; `c` holds the fields of one       *)
(* binder instance: scope, template (0 for null) and level.  It reads the  *)
(* Scope tree that pass 1 left in `scope`.  An AST node is identified by   *)
(* the binding that owns the expression and its path below the root.       *)
(***************************************************************************)
RECURSIVE TemplateVisitAll(_, _, _)
RECURSIVE TemplateVisitItems(_, _, _)
RECURSIVE AstVisit(_, _, _, _, _)
RECURSIVE AstVisitAll(_, _, _, _, _, _)

AstKey(root, path) == [root |-> root, path |-> path]

\* Set.prototype.add on a Set kept in insertion order
SetAdd(elements, x) ==
  IF \E k \in DOMAIN elements : elements[k] = x THEN elements ELSE Append(elements, x)

\* RecursiveAstVisitor: visit the sub-expressions of ast in order
AstVisitAll(b, c, root, path, ast, k) ==
  IF k > Len(ast.children) THEN b
  ELSE AstVisitAll(AstVisit(b, c, root, Append(path, k), ast.children[k]),
                   c, root, path, ast, k + 1)

\* TemplateBinder.visitPipe
VisitPipe(b, c, root, path, ast) ==
  AstVisitAll([b EXCEPT !.usedPipes = SetAdd(@, ast.name)], c, root, path, ast, 1)

\* TemplateBinder.maybeMap
MaybeMap(b, c, key, ast, name) ==
  IF ast.children[1].type # "ImplicitReceiver" THEN b
  ELSE LET found == ScopeLookup(scope, c.scope, name)
       IN IF found # NullEntity
            THEN [b EXCEPT !.expressions = MapSet(@, key, found)]
            ELSE b

\* TemplateBinder.visitPropertyRead / visitSafePropertyRead / visitPropertyWrite
VisitProperty(b, c, root, path, ast) ==
  AstVisitAll(MaybeMap(b, c, AstKey(root, path), ast, ast.name), c, root, path, ast, 1)

\* ast.visit(binder): dispatch on the variant
AstVisit(b, c, root, path, ast) ==
  CASE ast.type = "BindingPipe" -> VisitPipe(b, c, root, path, ast)
    [] ast.type \in {"PropertyRead", "SafePropertyRead", "PropertyWrite"} ->
         VisitProperty(b, c, root, path, ast)
    [] OTHER -> AstVisitAll(b, c, root, path, ast, 1)

\* TemplateBinder.visitVariable / visitReference
VisitSymbol(b, c, symbol) ==
  IF c.template # NullTemplate
    THEN [b EXCEPT !.symbols = MapSet(@, symbol.id, c.template)]
    ELSE b

\* node.visit(binder) for the nodes that are no Element, Template or Icu:
\* visitBoundAttribute, visitBoundEvent, visitBoundText, visitVariable,
\* visitReference; visitText and visitTextAttribute are empty
TemplateVisitItem(b, c, item) ==
  CASE item.type \in {"BoundAttribute", "BoundEvent", "BoundText"} ->
         AstVisit(b, c, item.id, << >>, item.value)
    [] item.type \in {"Variable", "Reference"} -> VisitSymbol(b, c, item)
    [] OTHER -> b

\* items.forEach(this.visitNode); an Error ends the walk
TemplateVisitItems(b, c, items) ==
  IF items = << >> \/ b.error # NoError THEN b
  ELSE TemplateVisitItems(TemplateVisitItem(b, c, Head(items)), c, Tail(items))

\* TemplateBinder.ingest: n = 0 is the plain node array
TemplateIngest(b, c, n) ==
  IF n # NullTemplate
    THEN LET b1 == TemplateVisitItems(b, c, Nodes[n].variables)
             b2 == TemplateVisitAll(b1, c, Children(n))
         IN IF b2.error # NoError THEN b2
            ELSE [b2 EXCEPT !.nestingLevel = MapSet(@, n, c.level)]
    ELSE TemplateVisitAll(b, c, Children(0))

TemplateVisitElement(b, c, n) ==
  LET b1 == TemplateVisitItems(b, c, Nodes[n].inputs)
      b2 == TemplateVisitItems(b1, c, Nodes[n].outputs)
  IN TemplateVisitAll(b2, c, Children(n))

\* A descent that hands its own level to the child binder.
TemplateVisitTemplateSameLevel(b, c, n) ==
  LET b1 == TemplateVisitItems(b, c, Nodes[n].inputs)
      b2 == TemplateVisitItems(b1, c, Nodes[n].outputs)
      b3 == TemplateVisitItems(b2, c, Nodes[n].templateAttrs)
      b4 == TemplateVisitItems(b3, c, Nodes[n].references)
      childScope == ScopeGetChildScope(scope, c.scope, n)
  IN IF b4.error # NoError THEN b4
     ELSE IF childScope = NullScope THEN [b4 EXCEPT !.error = AssertionMessage]
     ELSE TemplateIngest(b4, [scope |-> childScope, template |-> n,
                              level |-> c.level], n)

\* A template visit that resolves the template's own inputs, outputs and
\* template attributes in its child scope.
TemplateVisitTemplateInnerScope(b, c, n) ==
  LET childScope == ScopeGetChildScope(scope, c.scope, n)
      inner == [scope |-> childScope, template |-> n, level |-> c.level + 1]
      b1 == TemplateVisitItems(b, inner, Nodes[n].inputs)
      b2 == TemplateVisitItems(b1, inner, Nodes[n].outputs)
      b3 == TemplateVisitItems(b2, inner, Nodes[n].templateAttrs)
      b4 == TemplateVisitItems(b3, c, Nodes[n].references)
  IN IF childScope = NullScope THEN [b EXCEPT !.error = AssertionMessage]
     ELSE IF b4.error # NoError THEN b4
     ELSE TemplateIngest(b4, inner, n)

\* TemplateBinder.visitTemplate; Scope.getChildScope throws when the child
\* scope is undefined
TemplateVisitTemplate(b, c, n) ==
  LET b1 == TemplateVisitItems(b, c, Nodes[n].inputs)
      b2 == TemplateVisitItems(b1, c, Nodes[n].outputs)
      b3 == TemplateVisitItems(b2, c, Nodes[n].templateAttrs)
      b4 == TemplateVisitItems(b3, c, Nodes[n].references)
      childScope == ScopeGetChildScope(scope, c.scope, n)
  IN IF b4.error # NoError THEN b4
     ELSE IF childScope = NullScope THEN [b4 EXCEPT !.error = AssertionMessage]
     ELSE TemplateIngest(b4, [scope |-> childScope, template |-> n,
                              level |-> c.level + 1], n)

\* An Icu visit that skips the placeholders.
VisitIcuVarsOnly(b, c, n) == TemplateVisitItems(b, c, Nodes[n].vars)

\* TemplateBinder.visitIcu
VisitIcu(b, c, n) ==
  TemplateVisitItems(TemplateVisitItems(b, c, Nodes[n].vars), c, Nodes[n].placeholders)

\* node.visit(binder) for a child node
TemplateVisit(b, c, n) ==
  CASE Nodes[n].kind = "Element" -> TemplateVisitElement(b, c, n)
    [] Nodes[n].kind = "Template" -> TemplateVisitTemplate(b, c, n)
    [] Nodes[n].kind = "BoundText" ->
         TemplateVisitItem(b, c, IcuText(<<n, "value", 1>>, "BoundText", Nodes[n].value))
    [] Nodes[n].kind = "Icu" -> VisitIcu(b, c, n)
    [] OTHER -> b

TemplateVisitAll(b, c, ns) ==
  IF ns = << >> \/ b.error # NoError THEN b
  ELSE TemplateVisitAll(TemplateVisit(b, c, Head(ns)), c, Tail(ns))

\* TemplateBinder.applyWithScope(template, scope)
ApplyWithScope ==
  TemplateIngest(
    [expressions |-> EmptyMap, symbols |-> EmptyMap, usedPipes |-> << >>,
     nestingLevel |-> EmptyMap, error |-> NoError],
    [scope |-> RootKey, template |-> NullTemplate, level |-> 0],
    NullTemplate)

(***************************************************************************)
(* R3TargetBinder.bind, one action per statement, and the queries of the   *)
(* R3BoundTarget it returns.                                               *)
(***************************************************************************)
\* A guard that also refuses an empty node array.
LacksTemplateOrNodes(t) == ~t.defined \/ Len(t.template) = 0

\* !target.template
LacksTemplate(t) == ~t.defined

BindThrow ==
  /\ pc = "bind"
  /\ LacksTemplate(target)
  /\ thrown' = NoTemplateMessage
  /\ pc' = "thrown"
  /\ UNCHANGED <<target, scope, templateEntities, directives, bindings, references,
                 expressions, symbols, nestingLevel, usedPipes, bound>>
  /\ UNCHANGED parserVars

BindScope ==
  /\ pc = "bind"
  /\ ~LacksTemplate(target)
  /\ scope' = ScopeApply
  /\ pc' = "extractEntities"
  /\ UNCHANGED <<target, templateEntities, directives, bindings, references,
                 expressions, symbols, nestingLevel, usedPipes, thrown, bound>>
  /\ UNCHANGED parserVars

BindExtractEntities ==
  /\ pc = "extractEntities"
  /\ templateEntities' = ExtractTemplateEntities(scope)
  /\ pc' = "matchDirectives"
  /\ UNCHANGED <<target, scope, directives, bindings, references,
                 expressions, symbols, nestingLevel, usedPipes, thrown, bound>>
  /\ UNCHANGED parserVars

BindDirectives ==
  /\ pc = "matchDirectives"
  /\ LET d == DirectiveBinderApply
     IN /\ directives' = d.directives
        /\ bindings' = d.bindings
        /\ references' = d.references
  /\ pc' = "bindTemplate"
  /\ UNCHANGED <<target, scope, templateEntities,
                 expressions, symbols, nestingLevel, usedPipes, thrown, bound>>
  /\ UNCHANGED parserVars

BindTemplate ==
  /\ pc = "bindTemplate"
  /\ LET b == ApplyWithScope
     IN IF b.error # NoError
          THEN /\ thrown' = b.error
               /\ pc' = "thrown"
               /\ UNCHANGED <<expressions, symbols, nestingLevel, usedPipes>>
          ELSE /\ expressions' = b.expressions
               /\ symbols' = b.symbols
               /\ nestingLevel' = b.nestingLevel
               /\ usedPipes' = b.usedPipes
               /\ pc' = "return"
               /\ UNCHANGED thrown
  /\ UNCHANGED <<target, scope, templateEntities, directives, bindings, references, bound>>
  /\ UNCHANGED parserVars

BindReturn ==
  /\ pc = "return"
  /\ bound' = TRUE
  /\ pc' = "returned"
  /\ UNCHANGED <<target, scope, templateEntities, directives, bindings, references,
                 expressions, symbols, nestingLevel, usedPipes, thrown>>
  /\ UNCHANGED parserVars

Next ==
  \/ BindThrow
  \/ BindScope
  \/ BindExtractEntities
  \/ BindDirectives
  \/ BindTemplate
  \/ BindReturn

\* `map.get(key) || fallback` of the R3BoundTarget queries
MapGetOr(m, k, fallback) == IF MapHas(m, k) THEN m[k] ELSE fallback

GetEntitiesInTemplateScope(template) == MapGetOr(templateEntities, template, {})
GetDirectivesOfNode(n) == MapGetOr(directives, n, << >>)
GetReferenceTarget(ref) == MapGetOr(references, ref.id, NullTarget)
GetConsumerOfBinding(binding) == MapGetOr(bindings, binding.id, NullTarget)
GetExpressionTarget(key) == MapGetOr(expressions, key, NullEntity)
GetTemplateOfSymbol(symbol) == MapGetOr(symbols, symbol.id, NullTemplate)
GetNestingLevel(template) == MapGetOr(nestingLevel, template, 0)
GetUsedPipes == usedPipes

(***************************************************************************)
(* The inputs.  A shape gives every node its kind and its parent; only     *)
(* elements and templates have children.                                   *)
(***************************************************************************)
Names == {"a", "b"}

\* Node a is node n or one of its ancestors in shape s.
IsSelfOrAncestor(s, a, n) ==
  LET RECURSIVE Up(_)
      Up(m) == m # 0 /\ (m = a \/ Up(s[m].parent))
  IN Up(n)

\* The forests of n nodes numbered in document order.
Shapes(n, kinds) ==
  {s \in [1..n -> [parent : 0..(n - 1), kind : kinds]] :
     \A i \in 1..n :
       /\ s[i].parent < i
       /\ s[i].parent # 0 =>
            /\ s[s[i].parent].kind \in ParentKinds
            /\ IsSelfOrAncestor(s, s[i].parent, i - 1)}

\* Scoping family: the #references and let- variables vary; every element
\* and template carries the same bindings, whose expressions read every
\* name of Names with every property node variant and pass through pipes.
ReadBoth ==
  Binary(PropertyRead(ImplicitReceiver, "a"),
         PropertyRead(PropertyRead(ImplicitReceiver, "b"), "a"))
PipeOf(i) == IF i % 2 = 1 THEN "x" ELSE "y"

ScopeIo(i) ==
  [inputs |-> <<BoundAttribute(<<i, "inputs", 1>>, "in",
                               BindingPipe(ReadBoth, PipeOf(i), << >>))>>,
   outputs |-> <<BoundEvent(<<i, "outputs", 1>>, "ev",
                   PropertyWrite(ImplicitReceiver, "a",
                     SafePropertyRead(PropertyRead(ImplicitReceiver, "b"), "a")))>>,
   attributes |-> <<TextAttribute(<<i, "attributes", 1>>, "at")>>,
   templateAttrs |->
     <<BoundAttribute(<<i, "templateAttrs", 1>>, "ta",
         BindingPipe(SafePropertyRead(ImplicitReceiver, "b"), "z",
                     <<PropertyRead(ImplicitReceiver, "a")>>)),
       TextAttribute(<<i, "templateAttrs", 2>>, "tt")>>]

ScopeLeaf(kind, parent, i) ==
  IF kind = "BoundText"
    THEN LeafNode(kind, parent,
           Interpolation(<<BindingPipe(PropertyRead(ImplicitReceiver, "a"), PipeOf(i), << >>),
                           PropertyRead(ImplicitReceiver, "b")>>),
           << >>, << >>)
    ELSE LeafNode(kind, parent, NoAst,
           <<IcuText(<<i, "vars", 1>>, "BoundText",
                     BindingPipe(ReadBoth, "z", << >>))>>,
           <<IcuText(<<i, "placeholders", 1>>, "Text", NoAst),
             IcuText(<<i, "placeholders", 2>>, "BoundText",
                     BindingPipe(BindingPipe(PropertyRead(ImplicitReceiver, "b"),
                                             PipeOf(i), << >>),
                                 PipeOf(i), << >>))>>)

\* A declaration: a #reference on an element or template, or a let-
\* variable on a template.
DeclSlots(shape) ==
  {[sort |-> "references", node |-> i, name |-> nm] :
     i \in {j \in DOMAIN shape : shape[j].kind \in ParentKinds}, nm \in Names}
  \union
  {[sort |-> "variables", node |-> i, name |-> nm] :
     i \in {j \in DOMAIN shape : shape[j].kind = "Template"}, nm \in Names}

DeclRank(d) == 2 * d.node + (IF d.sort = "variables" THEN 1 ELSE 0)

\* The declarations of a forest, listed node by node; the order of two
\* declarations of one sort on one node is their order in the source.
DeclSeqs(shape) ==
  {ds \in UNION {[1..k -> DeclSlots(shape)] : k \in 0..MaxDecls} :
     \A k \in 1..(Len(ds) - 1) : DeclRank(ds[k]) <= DeclRank(ds[k + 1])}

DeclaredOn(decls, i, sort, value) ==
  LET picked == SelectSeq(decls, LAMBDA d : d.node = i /\ d.sort = sort)
  IN [k \in 1..Len(picked) |->
        IF sort = "references"
          THEN Reference(<<i, sort, k>>, picked[k].name, value)
          ELSE Variable(<<i, sort, k>>, picked[k].name)]

ScopeForest(shape, decls) ==
  [i \in DOMAIN shape |->
     IF shape[i].kind \in ParentKinds
       THEN ParentNode(shape[i].kind, shape[i].parent, ScopeIo(i),
                       DeclaredOn(decls, i, "references", ""),
                       DeclaredOn(decls, i, "variables", ""), << >>)
       ELSE ScopeLeaf(shape[i].kind, shape[i].parent, i)]

ScopeShapes == UNION {Shapes(n, ParentKinds \union LeafKinds) : n \in 0..MaxNodes}

\* Directive family: what the selector matcher yields varies; every node
\* carries a reference for each kind of value and bindings that the
\* directives claim or leave alone.  The css selector of a node is made of
\* its element name and attribute names, so the matcher yields one list for
\* the elements and one for the templates.
Cmp == DirectiveMeta("Cmp", TRUE, NullExportAs, {"p"}, {"e"})
DirA == DirectiveMeta("DirA", FALSE, ExportAs(<<"exp">>), {"p", "q"}, {})
DirB == DirectiveMeta("DirB", TRUE, ExportAs(<<"other", "exp">>), {"q"}, {"e", "p"})
Directives == {Cmp, DirA, DirB}

DirLists ==
  {ds \in UNION {[1..k -> Directives] : k \in 0..MaxDirs} :
     \A j, k \in DOMAIN ds : j # k => ds[j] # ds[k]}

RefValues == <<"", " ", "exp", "other", "none">>
RefNames == <<"r1", "r2", "r3", "r4", "r5">>

DirIo(i) ==
  LET read == PropertyRead(ImplicitReceiver, "r1")
  IN [inputs |-> <<BoundAttribute(<<i, "inputs", 1>>, "p", read),
                   BoundAttribute(<<i, "inputs", 2>>, "q", read),
                   BoundAttribute(<<i, "inputs", 3>>, "u", read)>>,
      outputs |-> <<BoundEvent(<<i, "outputs", 1>>, "e", read),
                    BoundEvent(<<i, "outputs", 2>>, "p", read),
                    BoundEvent(<<i, "outputs", 3>>, "u", read)>>,
      attributes |-> <<TextAttribute(<<i, "attributes", 1>>, "p"),
                       TextAttribute(<<i, "attributes", 2>>, "u")>>,
      templateAttrs |-> <<BoundAttribute(<<i, "templateAttrs", 1>>, "q", read),
                          TextAttribute(<<i, "templateAttrs", 2>>, "p"),
                          TextAttribute(<<i, "templateAttrs", 3>>, "u")>>]

DirForest(shape, matcher) ==
  [i \in DOMAIN shape |->
     ParentNode(shape[i].kind, shape[i].parent, DirIo(i),
                [k \in DOMAIN RefValues |->
                   Reference(<<i, "references", k>>, RefNames[k], RefValues[k])],
                << >>, matcher[shape[i].kind])]

DirShapes == UNION {Shapes(n, ParentKinds) : n \in 0..MaxDirNodes}

Target(forest) == [defined |-> TRUE, template |-> forest]
NoTemplateTarget == [defined |-> FALSE, template |-> << >>]

InitBind ==
  /\ pc = "bind"
  /\ scope = EmptyMap
  /\ templateEntities = EmptyMap
  /\ directives = EmptyMap
  /\ bindings = EmptyMap
  /\ references = EmptyMap
  /\ expressions = EmptyMap
  /\ symbols = EmptyMap
  /\ nestingLevel = EmptyMap
  /\ usedPipes = << >>
  /\ thrown = NoError
  /\ bound = FALSE
  /\ words = {}
  /\ callsLeft = 0
  /\ errors = << >>
  /\ results = << >>

Init ==
  /\ \/ target = NoTemplateTarget
     \/ \E shape \in ScopeShapes : \E decls \in DeclSeqs(shape) :
          target = Target(ScopeForest(shape, decls))
  /\ InitBind

InitDirectives ==
  /\ \/ target = NoTemplateTarget
     \/ \E shape \in DirShapes : \E matcher \in [ParentKinds -> DirLists] :
          target = Target(DirForest(shape, matcher))
  /\ InitBind

Spec == Init /\ [][Next]_vars
SpecDirectives == InitDirectives /\ [][Next]_vars

(***************************************************************************)
(* Vocabulary of the properties, stated on the input forest alone (none of *)
(* it is computed by the visitors above).                                  *)
(***************************************************************************)
RECURSIVE EnclosingTemplate(_)
RECURSIVE Preorder(_)
RECURSIVE Paths(_)
RECURSIVE SubAst(_, _)
RECURSIVE Flatten(_)
RECURSIVE Visible(_, _)

Returned == pc = "returned"
TemplateIds == {n \in NodeIds : Nodes[n].kind = "Template"}
HostIds == {n \in NodeIds : Nodes[n].kind \in ParentKinds}

\* The innermost Template that strictly encloses node n, 0 when there is none.
EnclosingTemplate(n) ==
  IF n = 0 \/ Nodes[n].parent = 0 THEN 0
  ELSE IF Nodes[Nodes[n].parent].kind = "Template" THEN Nodes[n].parent
  ELSE EnclosingTemplate(Nodes[n].parent)

\* Number of Templates that enclose Template t.
TemplateDepth(t) ==
  LET RECURSIVE Up(_)
      Up(n) == IF EnclosingTemplate(n) = 0 THEN 0 ELSE 1 + Up(EnclosingTemplate(n))
  IN Up(t)

Flatten(seqs) == IF seqs = << >> THEN << >> ELSE Head(seqs) \o Flatten(Tail(seqs))

\* The nodes below n (below the top level for n = 0) in document order.
Preorder(n) ==
  LET kids == Children(n)
  IN Flatten([k \in DOMAIN kids |-> <<kids[k]>> \o Preorder(kids[k])])

\* The declarations made in the scope of Template t (top level for t = 0),
\* in declaration order: t's let- variables, then the #references of the
\* elements and templates that sit directly in that scope.
DeclarationsIn(t) ==
  LET hosts == SelectSeq(Preorder(0),
                 LAMBDA n : Nodes[n].kind \in ParentKinds /\ EnclosingTemplate(n) = t)
  IN (IF t = 0 THEN << >> ELSE Nodes[t].variables)
     \o Flatten([k \in DOMAIN hosts |-> Nodes[hosts[k]].references])

DeclaresName(t, name) == \E k \in DOMAIN DeclarationsIn(t) : DeclarationsIn(t)[k].name = name

\* The entity a name stands for in the scope of t alone: its first declaration.
DeclaredAs(t, name) ==
  LET ds == DeclarationsIn(t)
  IN ds[CHOOSE k \in DOMAIN ds :
          ds[k].name = name /\ \A j \in 1..(k - 1) : ds[j].name # name]

OwnEntities(t) ==
  LET ds == DeclarationsIn(t)
  IN {ds[k] : k \in {i \in DOMAIN ds : \A j \in 1..(i - 1) : ds[j].name # ds[i].name}}

\* The entity a name stands for seen from the scope of t: the declaration
\* of the innermost enclosing scope that has one.
Visible(t, name) ==
  IF DeclaresName(t, name) THEN DeclaredAs(t, name)
  ELSE IF t = 0 THEN NullEntity
  ELSE Visible(EnclosingTemplate(t), name)

\* Every expression of the forest with the node it is attached to.
BoundItems(n) ==
  LET own == Nodes[n].inputs \o Nodes[n].outputs \o Nodes[n].templateAttrs
               \o Nodes[n].vars \o Nodes[n].placeholders
  IN {own[k] : k \in {j \in DOMAIN own :
                        own[j].type \in {"BoundAttribute", "BoundEvent", "BoundText"}}}
       \union (IF Nodes[n].kind = "BoundText"
                 THEN {IcuText(<<n, "value", 1>>, "BoundText", Nodes[n].value)}
                 ELSE {})

Paths(ast) ==
  {<< >>} \union
  UNION {{<<k>> \o p : p \in Paths(ast.children[k])} : k \in DOMAIN ast.children}

SubAst(ast, path) ==
  IF path = << >> THEN ast ELSE SubAst(ast.children[Head(path)], Tail(path))

IsImplicitProperty(ast) ==
  /\ ast.type \in {"PropertyRead", "SafePropertyRead", "PropertyWrite"}
  /\ ast.children[1].type = "ImplicitReceiver"

(***************************************************************************)
(* Properties.                                                             *)
(***************************************************************************)
AllResultsEmpty ==
  /\ scope = EmptyMap /\ templateEntities = EmptyMap
  /\ directives = EmptyMap /\ bindings = EmptyMap /\ references = EmptyMap
  /\ expressions = EmptyMap /\ symbols = EmptyMap /\ nestingLevel = EmptyMap
  /\ usedPipes = << >>

\* C1: bind on a Target without a template throws at once: no pass has run,
\* nothing is returned; bind on a Target with a template (an empty node
\* array included) runs on to return a BoundTarget and never ends by a throw.
C1_BindRefusesMissingTemplate ==
  /\ ~target.defined =>
       /\ pc \in {"bind", "thrown"}
       /\ AllResultsEmpty
       /\ ~bound
       /\ pc = "thrown" => thrown = NoTemplateMessage
  /\ target.defined =>
       /\ pc # "thrown"
       /\ pc \in {"bind", "extractEntities", "matchDirectives", "bindTemplate",
                  "return", "returned"}
       /\ pc = "returned" => bound

C1_Witness == pc = "thrown" /\ ~target.defined /\ thrown = NoTemplateMessage

\* C2: every property read, safe read or write on the implicit receiver is
\* mapped to the declaration of its name in the innermost enclosing scope
\* that declares it, and to nothing when no enclosing scope declares it.
C2_ExpressionTargetIsInnermost ==
  Returned =>
    \A n \in NodeIds : \A item \in BoundItems(n) : \A path \in Paths(item.value) :
      LET ast == SubAst(item.value, path)
      IN IsImplicitProperty(ast) =>
           GetExpressionTarget(AstKey(item.id, path))
             = Visible(EnclosingTemplate(n), ast.name)

\* An inner `let a` shadows an outer `let a` for an expression inside the
\* inner template, and another name there is declared nowhere.
C2_Witness ==
  /\ Returned
  /\ \E outer, inner \in TemplateIds : \E n \in NodeIds :
       /\ EnclosingTemplate(inner) = outer
       /\ EnclosingTemplate(n) = inner
       /\ Nodes[n].kind = "BoundText"
       /\ Len(Nodes[outer].variables) = 1 /\ Nodes[outer].variables[1].name = "a"
       /\ Len(Nodes[inner].variables) = 1 /\ Nodes[inner].variables[1].name = "a"
       /\ GetExpressionTarget(AstKey(<<n, "value", 1>>, <<1, 1>>)) = Nodes[inner].variables[1]
       /\ GetExpressionTarget(AstKey(<<n, "value", 1>>, <<2>>)) = NullEntity

\* Vocabulary of the directive properties.
Blank(value) == value \in {"", " "}
Exporters(dirs, value) ==
  {j \in DOMAIN dirs :
     /\ ~dirs[j].exportAs.isNull
     /\ value \in {dirs[j].exportAs.values[k] : k \in DOMAIN dirs[j].exportAs.values}}
Components(dirs) == {j \in DOMAIN dirs : dirs[j].isComponent}
Least(S) == CHOOSE j \in S : \A i \in S : j <= i

\* The reference target for value `value`: the first exporter, else nothing.
ExportTargetIs(found, n, value) ==
  LET dirs == Nodes[n].matched
  IN IF Exporters(dirs, value) = {} THEN found = NullTarget
     ELSE found = DirectiveOnNode(dirs[Least(Exporters(dirs, value))], n)

\* C3 as stated: a reference with a non-empty value resolves to the first
\* matched directive whose exportAs holds that value, else to nothing.
C3_NonEmptyValueResolvesByExportAs ==
  Returned =>
    \A n \in HostIds : \A k \in DOMAIN Nodes[n].references :
      LET ref == Nodes[n].references[k]
      IN ref.value # "" => ExportTargetIs(GetReferenceTarget(ref), n, ref.value)

\* C3 amended: a reference whose value is non-empty after trimming
\* whitespace resolves to the first matched directive whose exportAs holds
\* exactly that value, else to nothing (never to a component or the node).
C3_NonBlankValueResolvesByExportAs ==
  Returned =>
    \A n \in HostIds : \A k \in DOMAIN Nodes[n].references :
      LET ref == Nodes[n].references[k]
      IN ~Blank(ref.value) => ExportTargetIs(GetReferenceTarget(ref), n, ref.value)

\* The second matched directive is the first to export "other"; "none" is
\* exported by no directive.
C3_Witness ==
  /\ Returned
  /\ \E n \in HostIds :
       /\ Nodes[n].matched = <<DirA, DirB>>
       /\ GetReferenceTarget(Nodes[n].references[4]) = DirectiveOnNode(DirB, n)
       /\ GetReferenceTarget(Nodes[n].references[3]) = DirectiveOnNode(DirA, n)
       /\ GetReferenceTarget(Nodes[n].references[5]) = NullTarget

\* C4: a reference with an empty or whitespace value always has a target:
\* the first matched component when there is one, else the host node.
C4_BlankValueResolvesToComponentOrNode ==
  Returned =>
    \A n \in HostIds : \A k \in DOMAIN Nodes[n].references :
      LET ref == Nodes[n].references[k]
          dirs == Nodes[n].matched
          found == GetReferenceTarget(ref)
      IN Blank(ref.value) =>
           /\ found # NullTarget
           /\ IF Components(dirs) = {} THEN found = TheNode(n)
              ELSE found = DirectiveOnNode(dirs[Least(Components(dirs))], n)

C4_Witness ==
  /\ Returned
  /\ \E n, m \in HostIds :
       /\ Nodes[n].matched = <<DirA, Cmp>>
       /\ GetReferenceTarget(Nodes[n].references[2]) = DirectiveOnNode(Cmp, n)
       /\ Nodes[m].kind = "Template" /\ Nodes[m].matched = <<DirA>>
       /\ GetReferenceTarget(Nodes[m].references[1]) = TheNode(m)
       /\ GetReferenceTarget(Nodes[m].references[2]) = TheNode(m)

\* The consumer of a binding named `name`: the first directive that
\* declares it among its inputs or outputs (as ioType says), else the node.
ConsumerIs(found, n, ioType, name) ==
  LET dirs == Nodes[n].matched
      Declared(dir) == IF ioType = "inputs" THEN dir.inputs ELSE dir.outputs
      claimers == {j \in DOMAIN dirs : name \in Declared(dirs[j])}
  IN /\ found # NullTarget
     /\ IF claimers = {} THEN found = TheNode(n)
        ELSE found = TheDirective(dirs[Least(claimers)])

\* C5: every input, attribute and template attribute is consumed by the
\* first matched directive with an input of its name, every output by the
\* first with an output of its name, and by the host node otherwise.
C5_ConsumerIsFirstDeclaringDirective ==
  Returned =>
    \A n \in HostIds :
      LET ins == Nodes[n].inputs \o Nodes[n].attributes \o Nodes[n].templateAttrs
          outs == Nodes[n].outputs
      IN /\ \A k \in DOMAIN ins :
              ConsumerIs(GetConsumerOfBinding(ins[k]), n, "inputs", ins[k].name)
         /\ \A k \in DOMAIN outs :
              ConsumerIs(GetConsumerOfBinding(outs[k]), n, "outputs", outs[k].name)

C5_Witness ==
  /\ Returned
  /\ \E n \in HostIds :
       /\ Nodes[n].kind = "Template"
       /\ Nodes[n].matched = <<Cmp, DirA>>
       /\ GetConsumerOfBinding(Nodes[n].inputs[2]) = TheDirective(DirA)
       /\ GetConsumerOfBinding(Nodes[n].inputs[3]) = TheNode(n)
       /\ GetConsumerOfBinding(Nodes[n].attributes[1]) = TheDirective(Cmp)
       /\ GetConsumerOfBinding(Nodes[n].templateAttrs[1]) = TheDirective(DirA)
       /\ GetConsumerOfBinding(Nodes[n].outputs[1]) = TheDirective(Cmp)
       /\ GetConsumerOfBinding(Nodes[n].outputs[2]) = TheNode(n)

\* C6 as stated: the nesting level of a Template is the number of
\* Templates that enclose it (0, 1, 2 for three nested templates).
C6_NestingLevelIsEnclosingCount ==
  Returned => \A t \in TemplateIds : GetNestingLevel(t) = TemplateDepth(t)

\* C6 amended: the nesting level of a Template enclosed by d other
\* Templates is d + 1 (1, 2, 3 for three nested templates).
C6_NestingLevelIsEnclosingCountPlusOne ==
  Returned => \A t \in TemplateIds : GetNestingLevel(t) = TemplateDepth(t) + 1

C6_Witness ==
  /\ Returned
  /\ \E t1, t2, t3 \in TemplateIds :
       /\ Nodes[t1].parent = 0 /\ Nodes[t2].parent = t1 /\ Nodes[t3].parent = t2
       /\ GetNestingLevel(t1) = 1 /\ GetNestingLevel(t2) = 2 /\ GetNestingLevel(t3) = 3

AllPipeNames ==
  UNION {UNION {{SubAst(item.value, path).name :
                   path \in {p \in Paths(item.value) :
                               SubAst(item.value, p).type = "BindingPipe"}} :
                  item \in BoundItems(n)} :
           n \in NodeIds}

\* C7: getUsedPipes lists exactly the names of the BindingPipe nodes of the
\* expressions of the forest, each name once.
C7_UsedPipesAreExactlyThePipesOfTheForest ==
  Returned =>
    /\ {GetUsedPipes[k] : k \in DOMAIN GetUsedPipes} = AllPipeNames
    /\ \A j, k \in DOMAIN GetUsedPipes : j # k => GetUsedPipes[j] # GetUsedPipes[k]

\* `x` is used at the top level, `y` only inside a nested template, and a
\* name is used more than once.
C7_Witness ==
  /\ Returned
  /\ \E top, t, inner \in NodeIds :
       /\ Nodes[top].kind = "BoundText" /\ Nodes[top].parent = 0 /\ PipeOf(top) = "x"
       /\ Nodes[t].kind = "Template" /\ Nodes[t].parent = 0 /\ PipeOf(t) = "y"
       /\ Nodes[inner].kind = "Icu" /\ Nodes[inner].parent = t /\ PipeOf(inner) = "x"
  /\ {GetUsedPipes[k] : k \in DOMAIN GetUsedPipes} = {"x", "y", "z"}
  /\ Len(GetUsedPipes) = 3

\* C8: every Variable and Reference declared in the scope of a Template is
\* recorded with that Template.
C8_SymbolsOfTemplateScopeHaveTheTemplate ==
  Returned =>
    \A t \in TemplateIds : \A symbol \in OwnEntities(t) : GetTemplateOfSymbol(symbol) = t

ParentScopeEntities(t) ==
  IF t = 0 THEN {} ELSE GetEntitiesInTemplateScope(EnclosingTemplate(t))

\* C9 as stated: the entities of a template scope are its own declarations
\* together with the whole visible set of the parent scope.
C9_EntitiesAreOwnAndAllOfParent ==
  Returned =>
    \A t \in TemplateIds \union {0} :
      GetEntitiesInTemplateScope(t) = OwnEntities(t) \union ParentScopeEntities(t)

\* C9 amended: the entities of a template scope are its own declarations
\* together with those of the parent's visible set whose names it does not
\* redeclare; a shadowed ancestor entity is not a member.
C9_EntitiesAreOwnAndUnshadowedOfParent ==
  Returned =>
    \A t \in TemplateIds \union {0} :
      GetEntitiesInTemplateScope(t)
        = OwnEntities(t) \union {e \in ParentScopeEntities(t) : ~DeclaresName(t, e.name)}

C9_Witness ==
  /\ Returned
  /\ \E t \in TemplateIds : \E mine \in OwnEntities(t) :
       \E theirs \in ParentScopeEntities(t) :
         /\ mine.name = theirs.name
         /\ mine \in GetEntitiesInTemplateScope(t)
         /\ theirs \notin GetEntitiesInTemplateScope(t)

\* C10: bind never throws for a target that has a template: once pass 1 is
\* done every Template has a child scope in the scope that encloses it, so
\* the assertion of getChildScope cannot fire in pass 3.
C10_BindNeverThrowsOnTemplateContent ==
  target.defined =>
    /\ pc # "thrown" /\ thrown = NoError
    /\ pc # "bind" =>
         \A t \in TemplateIds :
           /\ MapHas(scope, EnclosingTemplate(t)) /\ MapHas(scope, t)
           /\ ScopeGetChildScope(scope, EnclosingTemplate(t), t) = t

\* Pass 3 has descended into a Template that sits inside an element, in a
\* forest with declarations and names that resolve to nothing.
C10_Witness ==
  /\ Returned
  /\ \E t \in TemplateIds : \E n \in NodeIds :
       /\ Nodes[t].parent # 0 /\ Nodes[Nodes[t].parent].kind = "Element"
       /\ MapHas(nestingLevel, t)
       /\ Nodes[t].variables # << >>
       /\ Nodes[Nodes[t].parent].references # << >>
       /\ Nodes[n].parent = t
       /\ Nodes[n].kind = "BoundText"
       /\ GetExpressionTarget(AstKey(<<n, "value", 1>>, <<2>>)) = NullEntity

(***************************************************************************)
(* Expression parser (expression_parser/parser, src/unnamed/part_009).     *)
(* A string is the sequence of its characters, each a one-character        *)
(* string; positions are counted from 0 as in the source.                  *)
(***************************************************************************)
MaxWords == 4      \* pieces of text an input of the Parser is made of
MaxCalls == 2      \* calls made on one Parser instance

RECURSIVE Concat(_)
Concat(strs) == IF strs = << >> THEN << >> ELSE Head(strs) \o Concat(Tail(strs))

Min(a, b) == IF a < b THEN a ELSE b
Max(a, b) == IF a > b THEN a ELSE b

\* String.prototype.substring(from, to)
Substring(str, from, to) ==
  LET lo == Max(0, Min(Min(from, to), Len(str)))
      hi == Max(0, Min(Max(from, to), Len(str)))
  IN SubSeq(str, lo + 1, hi)

\* String.prototype.startsWith(pattern, at)
StartsWith(str, pattern, at) ==
  /\ at >= 0
  /\ at + Len(pattern) <= Len(str)
  /\ SubSeq(str, at + 1, at + Len(pattern)) = pattern

\* String.prototype.indexOf(pattern, from): -1 when there is none
IndexOf(str, pattern, from) ==
  LET hits == {i \in Max(0, from)..Len(str) : StartsWith(str, pattern, i)}
  IN IF hits = {} THEN -1 ELSE CHOOSE i \in hits : \A j \in hits : i <= j

Whitespace == {" "}
Quotes == {"'", "\""}
Backslash == "\\"

\* text.trim().length === 0
TrimIsEmpty(text) == \A k \in DOMAIN text : text[k] \in Whitespace

(***************************************************************************)
(* The lexer (expression_parser/lexer): Lexer.tokenize and the Token       *)
(* predicates the parser calls.                                            *)
(***************************************************************************)
LowerCase == {"a", "b", "c", "e", "f", "i", "l", "n", "o", "p", "s", "t", "x", "y"}
ToUpperCase(char) ==
  CASE char = "a" -> "A" [] char = "b" -> "B" [] char = "c" -> "C"
    [] char = "e" -> "E" [] char = "f" -> "F" [] char = "i" -> "I"
    [] char = "l" -> "L" [] char = "n" -> "N" [] char = "o" -> "O"
    [] char = "p" -> "P"
    [] char = "s" -> "S" [] char = "t" -> "T" [] char = "x" -> "X"
    [] char = "y" -> "Y" [] OTHER -> char
UpperCase == {ToUpperCase(char) : char \in LowerCase}
Digits == {"0", "1"}

IsIdentifierStart(char) == char \in LowerCase \union UpperCase \union {"_", "$"}
IsIdentifierPart(char) == IsIdentifierStart(char) \/ char \in Digits

KEYWORDS ==
  { <<"v","a","r">>, <<"l","e","t">>, <<"a","s">>, <<"n","u","l","l">>,
    <<"u","n","d","e","f","i","n","e","d">>, <<"t","r","u","e">>,
    <<"f","a","l","s","e">>, <<"i","f">>, <<"e","l","s","e">>,
    <<"t","h","i","s">>, <<"t","y","p","e","o","f">> }

Token(index, end, type, strValue) ==
  [index |-> index, end |-> end, type |-> type, strValue |-> strValue]
EOF == Token(-1, -1, "Character", << >>)

IsCharacter(tok, char) == tok.type = "Character" /\ tok.strValue = <<char>>
IsOperator(tok, operator) == tok.type = "Operator" /\ tok.strValue = operator
IsIdentifier(tok) == tok.type = "Identifier"
IsPrivateIdentifier(tok) == tok.type = "PrivateIdentifier"
IsKeyword(tok) == tok.type = "Keyword"
IsString(tok) == tok.type = "String"
IsNumber(tok) == tok.type = "Number"
IsError(tok) == tok.type = "Error"
IsKeywordLet(tok) == IsKeyword(tok) /\ tok.strValue = <<"l","e","t">>
IsKeywordAs(tok) == IsKeyword(tok) /\ tok.strValue = <<"a","s">>
IsKeywordThis(tok) == IsKeyword(tok) /\ tok.strValue = <<"t","h","i","s">>
IsLiteralKeyword(tok) ==
  IsKeyword(tok) /\ tok.strValue \in { <<"n","u","l","l">>, <<"t","r","u","e">>,
                                       <<"u","n","d","e","f","i","n","e","d">>,
                                       <<"f","a","l","s","e">> }

\* the end of the run of characters in `class` that starts at position i
RECURSIVE RunEnd(_, _, _)
RunEnd(text, i, class) ==
  IF i < Len(text) /\ text[i + 1] \in class THEN RunEnd(text, i + 1, class) ELSE i

IdentifierParts == LowerCase \union UpperCase \union Digits \union {"_", "$"}

ScanIdentifier(text, start) ==
  LET end == RunEnd(text, start + 1, IdentifierParts)
      str == Substring(text, start, end)
  IN Token(start, end, IF str \in KEYWORDS THEN "Keyword" ELSE "Identifier", str)

ScanPrivateIdentifier(text, start) ==
  IF start + 1 < Len(text) /\ IsIdentifierStart(text[start + 2])
    THEN LET end == RunEnd(text, start + 1, IdentifierParts)
         IN Token(start, end, "PrivateIdentifier", Substring(text, start, end))
    ELSE Token(start + 1, start + 1, "Error", <<"Invalid character [#]">>)

ScanNumber(text, start) ==
  LET end == RunEnd(text, start + 1, Digits)
  IN Token(start, end, "Number", Substring(text, start, end))

\* scanQuote: the position after the closing quote and the unescaped value,
\* or closed = FALSE with the position the scanner stopped at
RECURSIVE QuoteEnd(_, _, _, _)
QuoteEnd(text, i, quote, value) ==
  IF i >= Len(text) THEN [closed |-> FALSE, end |-> i, value |-> value]
  ELSE IF text[i + 1] = quote THEN [closed |-> TRUE, end |-> i + 1, value |-> value]
  ELSE IF text[i + 1] = Backslash
    THEN QuoteEnd(text, i + 2, quote,
                  IF i + 1 < Len(text) THEN Append(value, text[i + 2]) ELSE value)
  ELSE QuoteEnd(text, i + 1, quote, Append(value, text[i + 1]))

ScanQuote(text, start) ==
  LET q == QuoteEnd(text, start + 1, text[start + 1], << >>)
  IN IF q.closed THEN Token(start, q.end, "String", q.value)
     ELSE Token(q.end, q.end, "Error", <<"Unterminated quote">>)

\* scanComplexOperator(start, one, twoCode, two, threeCode, three)
ScanComplexOperator(text, start, one, two, three) ==
  LET hasTwo == two # "" /\ start + 1 < Len(text) /\ text[start + 2] = two
      hasThree == hasTwo /\ three # "" /\ start + 2 < Len(text) /\ text[start + 3] = three
      len == IF hasThree THEN 3 ELSE IF hasTwo THEN 2 ELSE 1
  IN Token(start, start + len, "Operator", Substring(text, start, start + len))

ScanQuestion(text, start) ==
  LET two == start + 1 < Len(text) /\ text[start + 2] \in {"?", "."}
      len == IF two THEN 2 ELSE 1
  IN Token(start, start + len, "Operator", Substring(text, start, start + len))

\* _Scanner.scanToken at a position that holds no whitespace
ScanToken(text, start) ==
  LET char == text[start + 1]
  IN CASE IsIdentifierStart(char) -> ScanIdentifier(text, start)
       [] char \in Digits -> ScanNumber(text, start)
       [] char \in {".", "(", ")", "{", "}", "[", "]", ",", ":", ";"} ->
            Token(start, start + 1, "Character", <<char>>)
       [] char \in Quotes -> ScanQuote(text, start)
       [] char = "#" -> ScanPrivateIdentifier(text, start)
       [] char \in {"+", "-", "*", "/", "%", "^"} ->
            Token(start, start + 1, "Operator", <<char>>)
       [] char = "?" -> ScanQuestion(text, start)
       [] char \in {"<", ">"} -> ScanComplexOperator(text, start, char, "=", "")
       [] char \in {"!", "="} -> ScanComplexOperator(text, start, char, "=", "=")
       [] char = "&" -> ScanComplexOperator(text, start, char, "&", "")
       [] char = "|" -> ScanComplexOperator(text, start, char, "|", "")
       [] OTHER -> Token(start + 1, start + 1, "Error", <<"Unexpected character">>)

\* Lexer.tokenize: the tokens of text from position i on
RECURSIVE ScanTokens(_, _)
ScanTokens(text, i) ==
  LET start == RunEnd(text, i, Whitespace)
  IN IF start >= Len(text) THEN << >>
     ELSE LET tok == ScanToken(text, start)
          IN <<tok>> \o ScanTokens(text, tok.end)

Tokenize(text) == ScanTokens(text, 0)

(***************************************************************************)
(* class Parser: the scans over the characters of the input.  The          *)
(* interpolation config is the default one and there are no                *)
(* interpolatedTokens (no encoded HTML entity in the input).               *)
(***************************************************************************)
InterpStart == <<"{", "{">>
InterpEnd == <<"}", "}">>
NoQuote == ""
AtEnd == -1      \* errLocation 'at the end of the expression'

\* new ParserError(message, input, errLocation, ctxLocation); errLocation is
\* the column of 'at column N in', or AtEnd
ParserError(message, input, column) ==
  [message |-> message, input |-> input, column |-> column]

\* Parser._reportError
ReportError(errs, message, input, column) ==
  Append(errs, ParserError(message, input, column))

\* Parser._forEachUnquotedChar: the indices it yields, in order
RECURSIVE ForEachUnquotedChar(_, _, _, _)
ForEachUnquotedChar(input, i, currentQuote, escapeCount) ==
  IF i >= Len(input) THEN << >>
  ELSE LET char == input[i + 1]
           toggles == /\ char \in Quotes
                      /\ currentQuote = NoQuote \/ currentQuote = char
                      /\ escapeCount % 2 = 0
           quoteAfter == IF ~toggles THEN currentQuote
                         ELSE IF currentQuote = NoQuote THEN char ELSE NoQuote
           yielded == IF ~toggles /\ currentQuote = NoQuote THEN <<i>> ELSE << >>
           escapeAfter == IF char = Backslash THEN escapeCount + 1 ELSE 0
       IN yielded \o ForEachUnquotedChar(input, i + 1, quoteAfter, escapeAfter)

\* An end search that looks at every character, quoted or not.
GetInterpolationEndIndexQuoted(input, expressionEnd, start) ==
  IndexOf(input, expressionEnd, start)

\* Parser._getInterpolationEndIndex
GetInterpolationEndIndex(input, expressionEnd, start) ==
  LET charIndexes == ForEachUnquotedChar(input, start, NoQuote, 0)
      stops == {k \in DOMAIN charIndexes :
                  \/ StartsWith(input, expressionEnd, charIndexes[k])
                  \/ StartsWith(input, <<"/", "/">>, charIndexes[k])}
  IN IF stops = {} THEN -1
     ELSE LET charIndex == charIndexes[CHOOSE k \in stops : \A j \in stops : k <= j]
          IN IF StartsWith(input, expressionEnd, charIndex) THEN charIndex
             ELSE IndexOf(input, expressionEnd, charIndex)

\* the for loop of _checkNoInterpolation from the k-th unquoted character on
RECURSIVE CheckNoInterpolationLoop(_, _, _, _)
CheckNoInterpolationLoop(input, charIndexes, k, startIndex) ==
  IF k > Len(charIndexes) THEN [startIndex |-> startIndex, endIndex |-> -1]
  ELSE IF startIndex = -1
    THEN CheckNoInterpolationLoop(input, charIndexes, k + 1,
           IF StartsWith(input, InterpStart, 0) THEN charIndexes[k] ELSE -1)
  ELSE LET endIndex == GetInterpolationEndIndex(input, InterpEnd, charIndexes[k])
       IN IF endIndex > -1 THEN [startIndex |-> startIndex, endIndex |-> endIndex]
          ELSE CheckNoInterpolationLoop(input, charIndexes, k + 1, startIndex)

GotInterpolation == "Got interpolation ({{}}) where expression was expected"

\* Parser._checkNoInterpolation: the errors after the call
CheckNoInterpolation(errs, input) ==
  LET found == CheckNoInterpolationLoop(
                 input, ForEachUnquotedChar(input, 0, NoQuote, 0), 1, -1)
  IN IF found.startIndex > -1 /\ found.endIndex > -1
       THEN ReportError(errs, GotInterpolation, input, found.startIndex)
       ELSE errs

\* Parser._commentStart: -1 for null
RECURSIVE CommentStartFrom(_, _, _)
CommentStartFrom(input, i, outerQuote) ==
  IF i >= Len(input) - 1 THEN -1
  ELSE LET char == input[i + 1]
           nextChar == input[i + 2]
       IN IF char = "/" /\ nextChar = "/" /\ outerQuote = NoQuote THEN i
          ELSE CommentStartFrom(input, i + 1,
                 IF outerQuote = char THEN NoQuote
                 ELSE IF outerQuote = NoQuote /\ char \in Quotes THEN char
                 ELSE outerQuote)

CommentStart(input) == CommentStartFrom(input, 0, NoQuote)

\* Parser._stripComments
StripComments(input) ==
  LET i == CommentStart(input)
  IN IF i # -1 THEN Substring(input, 0, i) ELSE input

InterpolationPiece(text, start, end) == [text |-> text, start |-> start, end |-> end]

BlankExpression == "Blank expressions are not allowed in interpolated strings"

\* The rest of the input pushed as a raw string of its own.
PushRemainingString(st, input, i) ==
  [st EXCEPT !.strings =
     Append(@, InterpolationPiece(Substring(input, i, Len(input)), i, Len(input)))]

\* extendLastString: the rest of the input goes to the last raw string
ExtendLastString(st, input, i) ==
  [st EXCEPT !.strings[Len(st.strings)] =
     InterpolationPiece(@.text \o Substring(input, i, Len(input)), @.start, Len(input))]

\* Parser.splitInterpolation: the while loop from position i on and the
\* statements after it; st holds strings, expressions, offsets and errors
RECURSIVE SplitLoop(_, _, _, _)
SplitLoop(input, i, atInterpolation, st) ==
  IF i >= Len(input)
    THEN IF ~atInterpolation
           THEN [st EXCEPT !.strings =
                   Append(@, InterpolationPiece(Substring(input, i, Len(input)), i, Len(input)))]
           ELSE st
  ELSE IF ~atInterpolation
    THEN LET found == IndexOf(input, InterpStart, i)
             next == IF found = -1 THEN Len(input) ELSE found
         IN SplitLoop(input, next, TRUE,
              [st EXCEPT !.strings =
                 Append(@, InterpolationPiece(Substring(input, i, next), i, next))])
  ELSE LET fullStart == i
           exprStart == fullStart + Len(InterpStart)
           exprEnd == GetInterpolationEndIndex(input, InterpEnd, exprStart)
           fullEnd == exprEnd + Len(InterpEnd)
           text == Substring(input, exprStart, exprEnd)
       IN IF exprEnd = -1
            THEN ExtendLastString(st, input, i)
            ELSE SplitLoop(input, fullEnd, FALSE,
                   [st EXCEPT
                      !.errors = IF TrimIsEmpty(text)
                                   THEN ReportError(@, BlankExpression, input, i) ELSE @,
                      !.expressions = Append(@, InterpolationPiece(text, fullStart, fullEnd)),
                      !.offsets = Append(@, fullStart + Len(InterpStart))])

SplitInterpolation(errs, input) ==
  SplitLoop(input, 0, FALSE,
            [strings |-> << >>, expressions |-> << >>, offsets |-> << >>, errors |-> errs])

(***************************************************************************)
(* class _ParseAST.  A parser object is the record p of its fields; a      *)
(* method takes p and yields the p after the call, whose field `ast` is    *)
(* the AST the method returned and `ret` any other value it returned.      *)
(* Token positions count from 0: token i of the source is p.tokens[i + 1]. *)
(***************************************************************************)
ParseSpan(start, end) == [start |-> start, end |-> end]
NoSpan == ParseSpan(-1, -1)
\* ParseSpan.toAbsolute
ToAbsolute(span, absoluteOffset) ==
  ParseSpan(absoluteOffset + span.start, absoluteOffset + span.end)

NewAst(type, span, sourceSpan, name, children) ==
  [type |-> type, span |-> span, sourceSpan |-> sourceSpan, name |-> name,
   nameSpan |-> NoSpan, children |-> children]
NoNode == NewAst("None", NoSpan, NoSpan, << >>, << >>)
EmptyExpr(span, sourceSpan) == NewAst("EmptyExpr", span, sourceSpan, << >>, << >>)

ContextNone == 0
Writable == 1
Undefined == -1   \* an omitted artificialEndIndex / error index

\* new _ParseAST(input, location, absoluteOffset, tokens, parseFlags, errors, offset)
NewParseAST(input, absoluteOffset, tokens, action, assignmentEvent, errs, offset) ==
  [input |-> input, absoluteOffset |-> absoluteOffset, tokens |-> tokens,
   action |-> action, assignmentEvent |-> assignmentEvent, errors |-> errs,
   offset |-> offset, index |-> 0, rparensExpected |-> 0, rbracketsExpected |-> 0,
   rbracesExpected |-> 0, context |-> ContextNone, ast |-> NoNode,
   ret |-> << >>, retNull |-> FALSE, hangs |-> FALSE, skips |-> << >>]

Peek(p, offset) ==
  IF p.index + offset < Len(p.tokens) THEN p.tokens[p.index + offset + 1] ELSE EOF
NextTok(p) == IF p.index < Len(p.tokens) THEN p.tokens[p.index + 1] ELSE EOF
AtEOF(p) == p.index >= Len(p.tokens)

CurrentEndIndex(p) ==
  IF p.index > 0 THEN Peek(p, -1).end + p.offset
  ELSE IF Len(p.tokens) = 0 THEN Len(p.input) + p.offset
  ELSE NextTok(p).index + p.offset

InputIndex(p) == IF AtEOF(p) THEN CurrentEndIndex(p) ELSE NextTok(p).index + p.offset
CurrentAbsoluteOffset(p) == p.absoluteOffset + InputIndex(p)

\* _ParseAST.span(start, artificialEndIndex)
Span(p, start, artificialEndIndex) ==
  LET endIndex == IF artificialEndIndex # Undefined /\ artificialEndIndex > CurrentEndIndex(p)
                    THEN artificialEndIndex ELSE CurrentEndIndex(p)
  IN IF start > endIndex THEN ParseSpan(endIndex, start) ELSE ParseSpan(start, endIndex)

\* _ParseAST.sourceSpan(start, artificialEndIndex); the cache only spares
\* the construction of an equal span
SourceSpan(p, start, artificialEndIndex) ==
  ToAbsolute(Span(p, start, artificialEndIndex), p.absoluteOffset)

Advance(p) == [p EXCEPT !.index = @ + 1]

\* _ParseAST.locationText
LocationText(p, index) ==
  LET i == IF index = Undefined THEN p.index ELSE index
  IN IF i < Len(p.tokens) THEN p.tokens[i + 1].index + 1 ELSE AtEnd

\* a loop condition that stops at a closing symbol only at the end of the
\* input: no recovery point is conditional on a counter
SkipContinuesWithoutGrouping(p) ==
  LET n == NextTok(p)
  IN /\ p.index < Len(p.tokens)
     /\ ~IsCharacter(n, ";")
     /\ ~IsOperator(n, <<"|">>)
     /\ p.context # Writable \/ ~IsOperator(n, <<"=">>)

\* the condition of the while loop of skip
SkipContinues(p) ==
  LET n == NextTok(p)
  IN /\ p.index < Len(p.tokens)
     /\ ~IsCharacter(n, ";")
     /\ ~IsOperator(n, <<"|">>)
     /\ p.rparensExpected <= 0 \/ ~IsCharacter(n, ")")
     /\ p.rbracesExpected <= 0 \/ ~IsCharacter(n, "}")
     /\ p.rbracketsExpected <= 0 \/ ~IsCharacter(n, "]")
     /\ p.context # Writable \/ ~IsOperator(n, <<"=">>)

\* _ParseAST.skip
RECURSIVE Skip(_)
Skip(p) ==
  IF ~SkipContinues(p) THEN p
  ELSE LET reported ==
             IF IsError(NextTok(p))
               THEN [p EXCEPT !.errors =
                       Append(@, ParserError(NextTok(p).strValue[1], p.input,
                                             LocationText(p, Undefined)))]
               ELSE p
       IN Skip(Advance(reported))

\* q is the parser after a call of error made on p: the call is written to
\* skips, the record of the calls of error that the parser keeps here
\* beside the fields it has in the source
Skipped(p, q, message) ==
  [q EXCEPT !.skips =
     Append(@, [message |-> message, context |-> p.context,
                rparensExpected |-> p.rparensExpected,
                rbracesExpected |-> p.rbracesExpected,
                rbracketsExpected |-> p.rbracketsExpected,
                errors |-> SubSeq(q.errors, Len(p.errors) + 1, Len(q.errors)),
                skipped |-> SubSeq(p.tokens, p.index + 1, q.index),
                next |-> NextTok(q)])]

\* _ParseAST.error(message, index)
Error(p, message, index) ==
  Skipped(p,
          Skip([p EXCEPT !.errors =
                  Append(@, ParserError(message, p.input, LocationText(p, index)))]),
          message)

\* withContext: this.context |= context before cb, this.context ^= context after
ContextOr(p, context) ==
  [p EXCEPT !.context = IF @ = context THEN @ ELSE @ + context]
ContextXor(p, context) ==
  [p EXCEPT !.context = IF @ = context THEN ContextNone ELSE @ + context]

\* consumeOptionalCharacter / consumeOptionalOperator: whether it consumes
\* is NextIsCharacter / NextIsOperator, and then the parser advances
NextIsCharacter(p, char) ==
  p.index < Len(p.tokens) /\ IsCharacter(p.tokens[p.index + 1], char)
NextIsOperator(p, operator) ==
  p.index < Len(p.tokens) /\ IsOperator(p.tokens[p.index + 1], operator)
ConsumeOptionalCharacter(p, char) == IF NextIsCharacter(p, char) THEN Advance(p) ELSE p
ConsumeOptionalOperator(p, operator) == IF NextIsOperator(p, operator) THEN Advance(p) ELSE p

\* _ParseAST.expectCharacter
ExpectCharacter(p, char) ==
  IF NextIsCharacter(p, char) THEN Advance(p)
  ELSE Error(p, "Missing expected character", Undefined)

UnexpectedToken == "Unexpected token"
PrivateIdentifierMessage == "Private identifiers are not supported"

\* _ParseAST.expectIdentifierOrKeyword: ret is the name, retNull says null
ExpectIdentifierOrKeyword(p) ==
  LET n == NextTok(p)
  IN IF ~IsIdentifier(n) /\ ~IsKeyword(n)
       THEN [Error(p, IF IsPrivateIdentifier(n) THEN PrivateIdentifierMessage
                      ELSE UnexpectedToken, Undefined)
               EXCEPT !.ret = << >>, !.retNull = TRUE]
       ELSE [Advance(p) EXCEPT !.ret = n.strValue, !.retNull = FALSE]

\* _ParseAST.expectIdentifierOrKeywordOrString: ret is the name, '' on error
ExpectIdentifierOrKeywordOrString(p) ==
  LET n == NextTok(p)
  IN IF ~IsIdentifier(n) /\ ~IsKeyword(n) /\ ~IsString(n)
       THEN [Error(p, IF IsPrivateIdentifier(n) THEN PrivateIdentifierMessage
                      ELSE UnexpectedToken, Undefined)
               EXCEPT !.ret = << >>, !.retNull = FALSE]
       ELSE [Advance(p) EXCEPT !.ret = n.strValue, !.retNull = FALSE]

\* consumeOptionalAssignment: the number of tokens it consumes (0 for false)
OptionalAssignment(p) ==
  IF p.assignmentEvent /\ NextIsOperator(p, <<"!">>) /\ IsOperator(Peek(p, 1), <<"=">>)
    THEN 2
  ELSE IF NextIsOperator(p, <<"=">>) THEN 1 ELSE 0

(***************************************************************************)
(* The grammar of _ParseAST, one operator per method.                      *)
(***************************************************************************)
RECURSIVE ParsePipe(_)
RECURSIVE PipeLoop(_, _, _)
RECURSIVE PipeArguments(_, _)
RECURSIVE ParseConditional(_)
RECURSIVE ParseBinary(_, _)
RECURSIVE BinaryLevels(_, _, _, _)
RECURSIVE BinaryLoop(_, _, _)
RECURSIVE ParsePrefix(_)
RECURSIVE ParseCallChain(_)
RECURSIVE CallChainLoop(_, _)
RECURSIVE ParsePrimary(_)
RECURSIVE ParseExpressionList(_, _, _)
RECURSIVE ParseLiteralMap(_)
RECURSIVE LiteralMapLoop(_, _, _)
RECURSIVE ParseAccessMember(_, _, _, _)
RECURSIVE ParseCall(_, _, _, _)
RECURSIVE ParseCallArguments(_, _)
RECURSIVE ParseKeyedReadOrWrite(_, _, _, _)
RECURSIVE ChainLoop(_, _)
RECURSIVE Method(_, _)

\* A call this.parsePipe() or this.parseConditional() that starts the parse
\* of an expression inside another one runs the method of that name.
ThisParsePipe(p) == Method("parsePipe", p)
ThisParseConditional(p) == Method("parseConditional", p)

\* while (this.consumeOptionalCharacter(chars.$SEMICOLON)) {}
RECURSIVE ReadAllSemicolons(_)
ReadAllSemicolons(p) ==
  IF NextIsCharacter(p, ";") THEN ReadAllSemicolons(Advance(p)) ELSE p

ChainedExpression == "Binding expression cannot contain chained expression"

\* the fields of the parser that decide what it does next
Position(p) ==
  <<p.index, p.context, p.rparensExpected, p.rbracketsExpected, p.rbracesExpected>>

\* A chain loop without the check of errorIndex: it goes on after every
\* error, and a pass that leaves the parser where it was repeats for ever
ChainLoopWithoutBreak(p, exprs) ==
  IF p.index >= Len(p.tokens) THEN [p EXCEPT !.ret = exprs]
  ELSE LET Recovered(failed, found) ==
             IF Position(failed) = Position(p)
               THEN [failed EXCEPT !.ret = found, !.hangs = TRUE]
               ELSE ChainLoop(failed, found)
           Pushed(parsed, found) ==
             IF NextIsCharacter(parsed, ";")
               THEN ChainLoop(
                      ReadAllSemicolons(
                        IF ~parsed.action
                          THEN Error(Advance(parsed), ChainedExpression, Undefined)
                          ELSE Advance(parsed)),
                      found)
             ELSE IF parsed.index < Len(parsed.tokens)
               THEN Recovered(Error(parsed, UnexpectedToken, Undefined), found)
             ELSE ChainLoop(parsed, found)
           Parsed(parsed) == Pushed(parsed, Append(exprs, parsed.ast))
       IN Parsed(ThisParsePipe(p))

\* A chain loop that lets a binding chain like an action.
ChainLoopAnyMode(p, exprs) ==
  IF p.index >= Len(p.tokens) THEN [p EXCEPT !.ret = exprs]
  ELSE LET Recovered(parsed, failed, found) ==
             IF failed.index = parsed.index THEN [failed EXCEPT !.ret = found]
             ELSE ChainLoop(failed, found)
           Pushed(parsed, found) ==
             IF NextIsCharacter(parsed, ";")
               THEN ChainLoop(ReadAllSemicolons(Advance(parsed)), found)
             ELSE IF parsed.index < Len(parsed.tokens)
               THEN Recovered(parsed, Error(parsed, UnexpectedToken, Undefined), found)
             ELSE ChainLoop(parsed, found)
           Parsed(parsed) == Pushed(parsed, Append(exprs, parsed.ast))
       IN Parsed(ThisParsePipe(p))

\* the while loop of parseChain; ret is exprs
ChainLoop(p, exprs) ==
  IF p.index >= Len(p.tokens) THEN [p EXCEPT !.ret = exprs]
  ELSE LET Recovered(parsed, failed, found) ==
             IF failed.index = parsed.index THEN [failed EXCEPT !.ret = found]
             ELSE ChainLoop(failed, found)
           Pushed(parsed, found) ==
             IF NextIsCharacter(parsed, ";")
               THEN ChainLoop(
                      ReadAllSemicolons(
                        IF ~parsed.action
                          THEN Error(Advance(parsed), ChainedExpression, Undefined)
                          ELSE Advance(parsed)),
                      found)
             ELSE IF parsed.index < Len(parsed.tokens)
               THEN Recovered(parsed, Error(parsed, UnexpectedToken, Undefined), found)
             ELSE ChainLoop(parsed, found)
           Parsed(parsed) == Pushed(parsed, Append(exprs, parsed.ast))
       IN Parsed(ThisParsePipe(p))

\* an EmptyExpr from the current position, as the other nodes are made
EmptyExprAtInputIndex(p) ==
  EmptyExpr(Span(p, InputIndex(p), Undefined), SourceSpan(p, InputIndex(p), Undefined))

\* the EmptyExpr parseChain makes when there is no expression
EmptyExprOfChain(p) ==
  EmptyExpr(Span(p, p.offset, p.offset + Len(p.input)),
            SourceSpan(p, p.offset, p.offset + Len(p.input)))

\* _ParseAST.parseChain
ParseChain(p) ==
  LET start == InputIndex(p)
      Chained(done, exprs) ==
        [done EXCEPT !.ast =
           IF Len(exprs) = 0 THEN EmptyExprOfChain(done)
           ELSE IF Len(exprs) = 1 THEN exprs[1]
           ELSE NewAst("Chain", Span(done, start, Undefined),
                       SourceSpan(done, start, Undefined), << >>, exprs)]
      Done(done) == Chained(done, done.ret)
  IN Done(ChainLoop(p, << >>))

PipeInAction == "Cannot have a pipe in an action expression"

\* while (this.consumeOptionalCharacter(chars.$COLON)) args.push(parseExpression())
PipeArguments(p, args) ==
  IF NextIsCharacter(p, ":")
    THEN LET Parsed(parsed) == PipeArguments(parsed, Append(args, parsed.ast))
         IN Parsed(ThisParseConditional(Advance(p)))
    ELSE [p EXCEPT !.ret = args]

\* the end of the span of a pipe without a name
FullSpanEnd(p) ==
  IF NextTok(p).index # -1 THEN NextTok(p).index ELSE Len(p.input) + p.offset

\* the do-while loop of parsePipe; p.ast is not read, result is
PipeLoop(p, start, result) ==
  LET nameStart == InputIndex(p)
      Piped(after, pipe) ==
        IF NextIsOperator(after, <<"|">>) THEN PipeLoop(Advance(after), start, pipe)
        ELSE [after EXCEPT !.ast = pipe]
      WithArguments(named, fullSpanEnd, nameSpan, after) ==
        Piped(after,
              [NewAst("BindingPipe", Span(after, start, Undefined),
                      SourceSpan(after, start, fullSpanEnd), named.ret,
                      <<result>> \o after.ret)
                 EXCEPT !.nameSpan = nameSpan])
      WithSpans(named, fullSpanEnd) ==
        WithArguments(named, fullSpanEnd,
                      IF named.retNull
                        THEN ToAbsolute(ParseSpan(fullSpanEnd, fullSpanEnd), p.absoluteOffset)
                        ELSE SourceSpan(named, nameStart, Undefined),
                      PipeArguments(named, << >>))
      Named(named) ==
        WithSpans(named, IF named.retNull THEN FullSpanEnd(named) ELSE Undefined)
  IN Named(ExpectIdentifierOrKeyword(p))

\* _ParseAST.parsePipe
ParsePipe(p) ==
  LET start == InputIndex(p)
      Parsed(parsed) ==
        IF NextIsOperator(parsed, <<"|">>)
          THEN PipeLoop(IF parsed.action THEN Error(Advance(parsed), PipeInAction, Undefined)
                        ELSE Advance(parsed),
                        start, parsed.ast)
          ELSE parsed
  IN Parsed(ThisParseConditional(p))

ConditionalRequiresAll == "Conditional expression requires all 3 expressions"

\* A branch of a conditional parsed as an expression that takes no pipe.
ConditionalBranchWithoutPipe(p) == ThisParseConditional(p)

\* const yes = this.parsePipe(); no = this.parsePipe();
ConditionalBranch(p) == ThisParsePipe(p)

\* _ParseAST.parseExpression / parseConditional
ParseConditional(p) ==
  LET start == InputIndex(p)
      Conditional(cond, yes, no) ==
        [no EXCEPT !.ast =
           NewAst("Conditional", Span(no, start, Undefined),
                  SourceSpan(no, start, Undefined), << >>,
                  <<cond.ast, yes.ast, no.ast>>)]
      Failed(failed) ==
        [failed EXCEPT !.ast = EmptyExpr(Span(failed, start, Undefined),
                                         SourceSpan(failed, start, Undefined))]
      WithYes(cond, yes) ==
        Conditional(cond, yes,
                    IF NextIsCharacter(yes, ":") THEN ConditionalBranch(Advance(yes))
                    ELSE Failed(Error(yes, ConditionalRequiresAll, Undefined)))
      WithCondition(cond) ==
        IF ~NextIsOperator(cond, <<"?">>) THEN cond
        ELSE WithYes(cond, ConditionalBranch(Advance(cond)))
  IN WithCondition(ParseBinary(p, 1))

\* the method of _ParseAST of the given name, run on p
Method(name, p) ==
  IF name = "parsePipe" THEN ParsePipe(p) ELSE ParseConditional(p)

\* the operators of parseLogicalOr, parseLogicalAnd, parseNullishCoalescing,
\* parseEquality, parseRelational, parseAdditive and parseMultiplicative
BinaryOperators ==
  << {<<"|", "|">>}, {<<"&", "&">>}, {<<"?", "?">>},
     {<<"=", "=">>, <<"=", "=", "=">>, <<"!", "=">>, <<"!", "=", "=">>},
     {<<"<">>, <<">">>, <<"<", "=">>, <<">", "=">>},
     {<<"+">>, <<"-">>}, {<<"*">>, <<"%">>, <<"/">>} >>

\* the operand of a binary expression of a level: the next level
BinaryOperand(p, level) == ParseBinary(p, level + 1)

\* the while loop of a binary level; p.ast is result
BinaryLoop(p, start, level) ==
  IF NextTok(p).type = "Operator" /\ NextTok(p).strValue \in BinaryOperators[level]
    THEN LET WithRight(right) ==
               BinaryLoop(
                 [right EXCEPT !.ast =
                    NewAst("Binary", Span(right, start, Undefined),
                           SourceSpan(right, start, Undefined), NextTok(p).strValue,
                           <<p.ast, right.ast>>)],
                 start, level)
         IN WithRight(BinaryOperand(Advance(p), level))
    ELSE p

\* the while loops of the levels from k up to `level`, innermost first, on
\* the operand p; no loop runs unless the next token is an operator
BinaryLevels(p, start, k, level) ==
  IF p.index >= Len(p.tokens) \/ k < level \/ NextTok(p).type # "Operator" THEN p
  ELSE BinaryLevels(BinaryLoop(p, start, k), start, k - 1, level)

\* parseLogicalOr (level 1) down to parseMultiplicative (level 7): every
\* level first calls the next one, the last calls parsePrefix, all from the
\* same start, and then runs its loop
ParseBinary(p, level) ==
  BinaryLevels(ParsePrefix(p), InputIndex(p), Len(BinaryOperators), level)

\* _ParseAST.parsePrefix
ParsePrefix(p) ==
  IF NextTok(p).type = "Operator" /\ NextTok(p).strValue \in {<<"+">>, <<"-">>, <<"!">>}
    THEN LET start == InputIndex(p)
             WithOperand(operand) ==
               [operand EXCEPT !.ast =
                  NewAst(IF NextTok(p).strValue = <<"!">> THEN "PrefixNot" ELSE "Unary",
                         Span(operand, start, Undefined),
                         SourceSpan(operand, start, Undefined),
                         NextTok(p).strValue, <<operand.ast>>)]
         IN WithOperand(ParsePrefix(Advance(p)))
    ELSE ParseCallChain(p)

\* the while (true) loop of parseCallChain; p.ast is result
CallChainLoop(p, start) ==
  IF NextIsCharacter(p, ".")
    THEN CallChainLoop(ParseAccessMember(Advance(p), p.ast, start, FALSE), start)
  ELSE IF NextIsOperator(p, <<"?", ".">>)
    THEN LET q == Advance(p)
         IN IF NextIsCharacter(q, "(")
              THEN CallChainLoop(ParseCall(Advance(q), p.ast, start, TRUE), start)
            ELSE IF NextIsCharacter(q, "[")
              THEN CallChainLoop(ParseKeyedReadOrWrite(Advance(q), p.ast, start, TRUE), start)
            ELSE CallChainLoop(ParseAccessMember(q, p.ast, start, TRUE), start)
  ELSE IF NextIsCharacter(p, "[")
    THEN CallChainLoop(ParseKeyedReadOrWrite(Advance(p), p.ast, start, FALSE), start)
  ELSE IF NextIsCharacter(p, "(")
    THEN CallChainLoop(ParseCall(Advance(p), p.ast, start, FALSE), start)
  ELSE IF NextIsOperator(p, <<"!">>)
    THEN LET q == Advance(p)
         IN CallChainLoop(
              [q EXCEPT !.ast = NewAst("NonNullAssert", Span(q, start, Undefined),
                                       SourceSpan(q, start, Undefined), << >>, <<p.ast>>)],
              start)
  ELSE p

\* _ParseAST.parseCallChain
ParseCallChain(p) == CallChainLoop(ParsePrimary(p), InputIndex(p))

UnexpectedEnd == "Unexpected end of expression"

\* the result of a parsePrimary branch that reports and yields an EmptyExpr
PrimaryError(p, start, message) ==
  LET Failed(failed) ==
        [failed EXCEPT !.ast = EmptyExpr(Span(failed, start, Undefined),
                                         SourceSpan(failed, start, Undefined))]
  IN Failed(Error(p, message, Undefined))

\* _ParseAST.parsePrimary
ParsePrimary(p) ==
  LET start == InputIndex(p)
      n == NextTok(p)
      Leaf(type) == LET q == Advance(p)
                    IN [q EXCEPT !.ast = NewAst(type, Span(q, start, Undefined),
                                                SourceSpan(q, start, Undefined),
                                                n.strValue, << >>)]
      Parenthesized(inner) ==
        [ExpectCharacter([inner EXCEPT !.rparensExpected = @ - 1], ")")
           EXCEPT !.ast = inner.ast]
      LiteralArray(elements, closed) ==
        [closed EXCEPT !.ast =
           NewAst("LiteralArray", Span(closed, start, Undefined),
                  SourceSpan(closed, start, Undefined), << >>, elements.ret)]
      Elements(elements) ==
        LiteralArray(elements,
                     ExpectCharacter([elements EXCEPT !.rbracketsExpected = @ - 1], "]"))
  IN CASE IsCharacter(n, "(") ->
            Parenthesized(ThisParsePipe([Advance(p) EXCEPT !.rparensExpected = @ + 1]))
       [] IsLiteralKeyword(n) -> Leaf("LiteralPrimitive")
       [] IsKeywordThis(n) -> Leaf("ThisReceiver")
       [] IsCharacter(n, "[") ->
            Elements(ParseExpressionList(
                       [Advance(p) EXCEPT !.rbracketsExpected = @ + 1], "]", << >>))
       [] IsCharacter(n, "{") -> ParseLiteralMap(p)
       [] IsIdentifier(n) ->
            ParseAccessMember(
              p, NewAst("ImplicitReceiver", Span(p, start, Undefined),
                        SourceSpan(p, start, Undefined), << >>, << >>),
              start, FALSE)
       [] IsNumber(n) \/ IsString(n) -> Leaf("LiteralPrimitive")
       [] IsPrivateIdentifier(n) -> PrimaryError(p, start, PrivateIdentifierMessage)
       [] p.index >= Len(p.tokens) -> PrimaryError(p, start, UnexpectedEnd)
       [] OTHER -> PrimaryError(p, start, UnexpectedToken)

\* _ParseAST.parseExpressionList: the do-while loop; ret is result
ParseExpressionList(p, terminator, result) ==
  IF NextIsCharacter(p, terminator) THEN [p EXCEPT !.ret = result]
  ELSE LET Pushed(parsed, found) ==
             IF NextIsCharacter(parsed, ",")
               THEN ParseExpressionList(Advance(parsed), terminator, found)
               ELSE [parsed EXCEPT !.ret = found]
           Parsed(parsed) == Pushed(parsed, Append(result, parsed.ast))
       IN Parsed(ThisParsePipe(p))

\* the do-while loop of parseLiteralMap; ret is values
LiteralMapLoop(p, keys, values) ==
  LET keyStart == InputIndex(p)
      quoted == IsString(NextTok(p))
      Shorthand(keyed, span, sourceSpan) ==
        [keyed EXCEPT !.ast =
           [NewAst("PropertyRead", span, sourceSpan, keyed.ret,
                   <<NewAst("ImplicitReceiver", span, sourceSpan, << >>, << >>)>>)
              EXCEPT !.nameSpan = sourceSpan]]
      Pushed(valued, allKeys, allValues) ==
        IF NextIsCharacter(valued, ",")
          THEN LiteralMapLoop(Advance(valued), allKeys, allValues)
          ELSE [valued EXCEPT !.ret = allValues, !.ast = [NoNode EXCEPT !.name = allKeys]]
      Valued(keyed, valued) ==
        Pushed(valued, Append(keys, keyed.ret), Append(values, valued.ast))
      Keyed(keyed) ==
        Valued(keyed,
               IF quoted THEN ThisParsePipe(ExpectCharacter(keyed, ":"))
               ELSE IF NextIsCharacter(keyed, ":") THEN ThisParsePipe(Advance(keyed))
               ELSE Shorthand(keyed, Span(keyed, keyStart, Undefined),
                              SourceSpan(keyed, keyStart, Undefined)))
  IN Keyed(ExpectIdentifierOrKeywordOrString(p))

\* _ParseAST.parseLiteralMap
ParseLiteralMap(p) ==
  LET start == InputIndex(p)
      Closed(entries) == ExpectCharacter([entries EXCEPT !.rbracesExpected = @ - 1], "}")
      LiteralMap(done) ==
        [done EXCEPT !.ast = NewAst("LiteralMap", Span(done, start, Undefined),
                                    SourceSpan(done, start, Undefined),
                                    done.ast.name, done.ret)]
      Opened(opened) ==
        LiteralMap(
          IF NextIsCharacter(opened, "}")
            THEN [Advance(opened) EXCEPT !.ret = << >>, !.ast = NoNode]
            ELSE Closed(LiteralMapLoop([opened EXCEPT !.rbracesExpected = @ + 1],
                                       << >>, << >>)))
  IN Opened(ExpectCharacter(p, "{"))

ExpectedIdentifier == "Expected identifier for property access"
SafeAssignment == "The '?.' operator cannot be used in the assignment"
BindingAssignment == "Bindings cannot contain assignments"

\* the result of a branch that yields an EmptyExpr from `start`
WithEmptyExpr(p, start) ==
  [p EXCEPT !.ast = EmptyExpr(Span(p, start, Undefined), SourceSpan(p, start, Undefined))]

\* a property node: PropertyRead, SafePropertyRead or PropertyWrite
PropertyNode(p, type, start, nameSpan, id, children) ==
  [p EXCEPT !.ast =
     [NewAst(type, Span(p, start, Undefined), SourceSpan(p, start, Undefined), id, children)
        EXCEPT !.nameSpan = nameSpan]]

\* the callback that parseAccessMember runs in the Writable context: ret is id
ExpectMemberName(p, readReceiver) ==
  LET Expected(expected) ==
        IF Len(expected.ret) = 0
          THEN Error(expected, ExpectedIdentifier, readReceiver.span.end)
          ELSE expected
  IN ContextXor(Expected(ExpectIdentifierOrKeyword(ContextOr(p, Writable))), Writable)

\* parseAccessMember from the name on; named is the parser after withContext
AccessMemberOf(p, named, readReceiver, start, isSafe) ==
  LET id == named.ret
      nameSpan == SourceSpan(named, InputIndex(p), Undefined)
      assigns == OptionalAssignment(named)
      consumed == [named EXCEPT !.index = @ + assigns]
  IN CASE isSafe /\ assigns > 0 ->
            WithEmptyExpr(Error(consumed, SafeAssignment, Undefined), start)
       [] isSafe /\ assigns = 0 ->
            PropertyNode(named, "SafePropertyRead", start, nameSpan, id, <<readReceiver>>)
       [] ~isSafe /\ assigns > 0 /\ ~p.action ->
            WithEmptyExpr(Error(consumed, BindingAssignment, Undefined), start)
       [] ~isSafe /\ assigns > 0 /\ p.action ->
            LET value == ThisParseConditional(consumed)
            IN PropertyNode(value, "PropertyWrite", start, nameSpan, id,
                            <<readReceiver, value.ast>>)
       [] OTHER -> PropertyNode(named, "PropertyRead", start, nameSpan, id, <<readReceiver>>)

\* _ParseAST.parseAccessMember
ParseAccessMember(p, readReceiver, start, isSafe) ==
  AccessMemberOf(p, ExpectMemberName(p, readReceiver), readReceiver, start, isSafe)

\* _ParseAST.parseCallArguments: the do-while loop; ret is positionals
ParseCallArguments(p, positionals) ==
  LET Pushed(parsed, found) ==
        IF NextIsCharacter(parsed, ",") THEN ParseCallArguments(Advance(parsed), found)
        ELSE [parsed EXCEPT !.ret = found]
      Parsed(parsed) == Pushed(parsed, Append(positionals, parsed.ast))
  IN Parsed(ThisParsePipe(p))

\* _ParseAST.parseCall
ParseCall(p, receiver, start, isSafe) ==
  LET Called(args, closed) ==
        [closed EXCEPT !.ast =
           NewAst(IF isSafe THEN "SafeCall" ELSE "Call", Span(closed, start, Undefined),
                  SourceSpan(closed, start, Undefined), << >>, <<receiver>> \o args.ret)]
      WithArguments(args) ==
        Called(args, [ExpectCharacter(args, ")") EXCEPT !.rparensExpected = @ - 1])
      Opened(opened) ==
        WithArguments(IF NextIsCharacter(opened, ")") THEN [opened EXCEPT !.ret = << >>]
                      ELSE ParseCallArguments(opened, << >>))
  IN Opened([p EXCEPT !.rparensExpected = @ + 1])

EmptyKey == "Key access cannot be empty"

\* _ParseAST.parseKeyedReadOrWrite
ParseKeyedReadOrWrite(p, receiver, start, isSafe) ==
  LET key == ThisParsePipe([ContextOr(p, Writable) EXCEPT !.rbracketsExpected = @ + 1])
      checked == IF key.ast.type = "EmptyExpr" THEN Error(key, EmptyKey, Undefined) ELSE key
      closed == ExpectCharacter([checked EXCEPT !.rbracketsExpected = @ - 1], "]")
      assigned == NextIsOperator(closed, <<"=">>)
      Keyed(q, type, children) ==
        [q EXCEPT !.ast = NewAst(type, Span(q, start, Undefined),
                                 SourceSpan(q, start, Undefined), << >>, children)]
  IN CASE assigned /\ isSafe ->
            ContextXor(WithEmptyExpr(Error(Advance(closed), SafeAssignment, Undefined), start),
                       Writable)
       [] assigned /\ ~isSafe ->
            LET value == ThisParseConditional(Advance(closed))
            IN ContextXor(Keyed(value, "KeyedWrite", <<receiver, key.ast, value.ast>>),
                          Writable)
       [] OTHER ->
            ContextXor(Keyed(closed, IF isSafe THEN "SafeKeyedRead" ELSE "KeyedRead",
                             <<receiver, key.ast>>),
                       Writable)

(***************************************************************************)
(* The template micro-syntax of _ParseAST.                                 *)
(***************************************************************************)
RECURSIVE TemplateBindingsLoop(_, _)
RECURSIVE TemplateBindingKeyLoop(_, _)

\* a TemplateBindingIdentifier
TemplateBindingIdentifier(source, span) == [source |-> source, span |-> span]
NoIdentifier == TemplateBindingIdentifier(<<"(null)">>, NoSpan)

\* the value of a binding: null, an ASTWithSource or an identifier
NullValue == [kind |-> "null", ast |-> NoNode, source |-> << >>, id |-> NoIdentifier]
AstValue(ast, source) == [kind |-> "ast", ast |-> ast, source |-> source, id |-> NoIdentifier]
IdentifierValue(id) == [kind |-> "identifier", ast |-> NoNode, source |-> << >>, id |-> id]

ExpressionBinding(sourceSpan, key, value) ==
  [type |-> "ExpressionBinding", sourceSpan |-> sourceSpan, key |-> key, value |-> value]
VariableBinding(sourceSpan, key, value) ==
  [type |-> "VariableBinding", sourceSpan |-> sourceSpan, key |-> key, value |-> value]

\* the do-while loop of expectTemplateBindingKey; ret is result
TemplateBindingKeyLoop(p, result) ==
  LET Named(expected, withName) ==
        IF NextIsOperator(expected, <<"-">>)
          THEN TemplateBindingKeyLoop(Advance(expected), Append(withName, "-"))
          ELSE [expected EXCEPT !.ret = withName]
      Expected(expected) == Named(expected, result \o expected.ret)
  IN Expected(ExpectIdentifierOrKeywordOrString(p))

\* _ParseAST.expectTemplateBindingKey: ret is the TemplateBindingIdentifier
ExpectTemplateBindingKey(p) ==
  LET start == CurrentAbsoluteOffset(p)
      Keyed(done) ==
        [done EXCEPT !.ret =
           TemplateBindingIdentifier(done.ret, ParseSpan(start, start + Len(done.ret)))]
  IN Keyed(TemplateBindingKeyLoop(p, << >>))

\* _ParseAST.consumeStatementTerminator
ConsumeStatementTerminator(p) ==
  IF NextIsCharacter(p, ";") \/ NextIsCharacter(p, ",") THEN Advance(p) ELSE p

\* _ParseAST.parseAsBinding: ret is <<binding>>, or << >> for null
ParseAsBinding(p, value) ==
  IF ~IsKeywordAs(NextTok(p)) THEN [p EXCEPT !.ret = << >>]
  ELSE LET Bound(keyed, done) ==
             [done EXCEPT !.ret =
                <<VariableBinding(ParseSpan(value.span.start, CurrentAbsoluteOffset(done)),
                                  keyed.ret, IdentifierValue(value))>>]
           Keyed(keyed) == Bound(keyed, ConsumeStatementTerminator(keyed))
       IN Keyed(ExpectTemplateBindingKey(Advance(p)))

\* _ParseAST.parseLetBinding: ret is <<binding>>, or << >> for null
ParseLetBinding(p) ==
  IF ~IsKeywordLet(NextTok(p)) THEN [p EXCEPT !.ret = << >>]
  ELSE LET spanStart == CurrentAbsoluteOffset(p)
           Bound(keyed, assigned, valued, done) ==
             [done EXCEPT !.ret =
                <<VariableBinding(ParseSpan(spanStart, CurrentAbsoluteOffset(done)),
                                  keyed.ret,
                                  IF assigned THEN IdentifierValue(valued.ret)
                                  ELSE NullValue)>>]
           Valued(keyed, assigned, valued) ==
             Bound(keyed, assigned, valued, ConsumeStatementTerminator(valued))
           Assigned(keyed, assigned) ==
             Valued(keyed, assigned,
                    IF assigned THEN ExpectTemplateBindingKey(Advance(keyed)) ELSE keyed)
           Keyed(keyed) == Assigned(keyed, NextIsOperator(keyed, <<"=">>))
       IN Keyed(ExpectTemplateBindingKey(Advance(p)))

\* _ParseAST.getDirectiveBoundTarget: ret is the value
GetDirectiveBoundTarget(p) ==
  IF AtEOF(p) \/ IsKeywordAs(NextTok(p)) \/ IsKeywordLet(NextTok(p))
    THEN [p EXCEPT !.ret = NullValue]
    ELSE LET Parsed(parsed) ==
               [parsed EXCEPT !.ret =
                  AstValue(parsed.ast,
                           Substring(p.input, parsed.ast.span.start, parsed.ast.span.end))]
         IN Parsed(ThisParsePipe(p))

\* _ParseAST.parseDirectiveKeywordBindings: ret is bindings
ParseDirectiveKeywordBindings(p, key) ==
  LET Bound(valued, asBinding, done) ==
        [done EXCEPT !.ret =
           <<ExpressionBinding(
               ParseSpan(key.span.start,
                         IF asBinding.ret = << >> THEN CurrentAbsoluteOffset(done)
                         ELSE CurrentAbsoluteOffset(valued)),
               key, valued.ret)>>
             \o asBinding.ret]
      WithAs(valued, asBinding) ==
        Bound(valued, asBinding,
              IF asBinding.ret = << >> THEN ConsumeStatementTerminator(asBinding)
              ELSE asBinding)
      Valued(valued) == WithAs(valued, ParseAsBinding(valued, key))
  IN Valued(GetDirectiveBoundTarget(ConsumeOptionalCharacter(p, ":")))

\* The keyword put after the directive key as it is written.
DirectiveKeywordAsWritten(templateKey, key) ==
  [key EXCEPT !.source = templateKey.source \o key.source]

\* key.source = templateKey.source + key.source.charAt(0).toUpperCase() + ...
DirectiveKeyword(templateKey, key) ==
  [key EXCEPT !.source =
     templateKey.source
       \o (IF Len(key.source) = 0 THEN << >> ELSE <<ToUpperCase(key.source[1])>>)
       \o Substring(key.source, 1, Len(key.source))]

\* one pass through the body of the while loop of parseTemplateBindings
TemplateBindingsStep(p, templateKey) ==
  LET letBinding == ParseLetBinding(p)
      keyed == ExpectTemplateBindingKey(p)
      asBinding == ParseAsBinding(keyed, keyed.ret)
      Terminated(found) == [ConsumeStatementTerminator(found) EXCEPT !.ret = found.ret]
  IN Terminated(IF letBinding.ret # << >> THEN letBinding
                ELSE IF asBinding.ret # << >> THEN asBinding
                ELSE ParseDirectiveKeywordBindings(
                       asBinding, DirectiveKeyword(templateKey, keyed.ret)))

\* the while loop of parseTemplateBindings; p.ret is the bindings found so
\* far, ret is the bindings.  A pass that leaves the parser where it was
\* repeats for ever: hangs
TemplateBindingsLoop(p, templateKey) ==
  IF p.index >= Len(p.tokens) THEN p
  ELSE LET Stepped(stepped) ==
             IF Position(stepped) = Position(p)
               THEN [stepped EXCEPT !.ret = p.ret \o stepped.ret, !.hangs = TRUE]
               ELSE TemplateBindingsLoop([stepped EXCEPT !.ret = p.ret \o stepped.ret],
                                         templateKey)
       IN Stepped(TemplateBindingsStep(p, templateKey))

\* _ParseAST.parseTemplateBindings(templateKey): ret is bindings
ParseTemplateBindingsOf(p, templateKey) ==
  TemplateBindingsLoop(ParseDirectiveKeywordBindings(p, templateKey), templateKey)

(***************************************************************************)
(* class Parser: its methods.  A method takes the errors array as it is    *)
(* before the call and yields the array after the call and the object it   *)
(* returned.  The `errors` of a returned object is the array of the        *)
(* Parser itself (part_009:77), so a result keeps no array of its own; it  *)
(* records in errorsAtReturn what the array held when it was returned.     *)
(***************************************************************************)
RECURSIVE ParseExpressions(_, _, _, _, _, _)
RECURSIVE ContainsPipe(_)

CallReturn(errs, result) == [errors |-> errs, result |-> result]

\* what a call returned: an ASTWithSource, a TemplateBindingParseResult, a
\* SplitInterpolation, or null; with it, skips and context of the _ParseAST
\* of the call (of the last one, after the others, when it made several)
Result(op, input, absoluteOffset, errs) ==
  [op |-> op, input |-> input, absoluteOffset |-> absoluteOffset, isNull |-> FALSE,
   ast |-> NoNode, strings |-> << >>, expressions |-> << >>, offsets |-> << >>,
   isAssignmentEvent |-> FALSE, templateKey |-> << >>, templateBindings |-> << >>,
   hangs |-> FALSE, errorsAtReturn |-> errs, skips |-> << >>, context |-> ContextNone]

\* new ASTWithSource(ast, input, location, absoluteOffset, this.errors)
ASTWithSource(op, p, input, absoluteOffset, errs) ==
  CallReturn(errs, [Result(op, input, absoluteOffset, errs) EXCEPT
                      !.ast = p.ast, !.hangs = p.hangs, !.skips = p.skips,
                      !.context = p.context])

\* checkNoInterpolation, stripComments, tokenize, new _ParseAST(...).parseChain()
ParseChainOf(errs, input, absoluteOffset, action, assignmentEvent) ==
  ParseChain(NewParseAST(input, absoluteOffset, Tokenize(StripComments(input)),
                         action, assignmentEvent, CheckNoInterpolation(errs, input), 0))

\* Parser.parseAction
ParseAction(errs, input, isAssignmentEvent, absoluteOffset) ==
  LET Parsed(p) ==
        [ASTWithSource("parseAction", p, input, absoluteOffset, p.errors)
           EXCEPT !.result.isAssignmentEvent = isAssignmentEvent]
  IN Parsed(ParseChainOf(errs, input, absoluteOffset, TRUE, isAssignmentEvent))

\* Parser._parseBindingAst: the parser after parseChain
ParseBindingAst(errs, input, absoluteOffset) ==
  ParseChainOf(errs, input, absoluteOffset, FALSE, FALSE)

\* Parser.parseBinding
ParseBinding(errs, input, absoluteOffset) ==
  LET Parsed(p) == ASTWithSource("parseBinding", p, input, absoluteOffset, p.errors)
  IN Parsed(ParseBindingAst(errs, input, absoluteOffset))

\* SimpleExpressionChecker reports a pipe
ContainsPipe(ast) ==
  \/ ast.type = "BindingPipe"
  \/ \E k \in DOMAIN ast.children : ContainsPipe(ast.children[k])

HostBindingPipes == "Host binding expression cannot contain pipes"

\* Parser.parseSimpleBinding
ParseSimpleBinding(errs, input, absoluteOffset) ==
  LET Parsed(p) ==
        ASTWithSource("parseSimpleBinding", p, input, absoluteOffset,
                      IF ContainsPipe(p.ast)
                        THEN ReportError(p.errors, HostBindingPipes, input, AtEnd)
                        ELSE p.errors)
  IN Parsed(ParseBindingAst(errs, input, absoluteOffset))

\* Parser.parseTemplateBindings
ParseTemplateBindings(errs, templateKey, templateValue, absoluteKeyOffset, absoluteValueOffset) ==
  LET Parsed(p) ==
        CallReturn(p.errors,
                   [Result("parseTemplateBindings", templateValue, absoluteValueOffset,
                           p.errors)
                      EXCEPT !.templateKey = templateKey, !.templateBindings = p.ret,
                             !.hangs = p.hangs, !.skips = p.skips,
                             !.context = p.context])
  IN Parsed(ParseTemplateBindingsOf(
              NewParseAST(templateValue, absoluteValueOffset, Tokenize(templateValue),
                          FALSE, FALSE, errs, 0),
              TemplateBindingIdentifier(
                templateKey,
                ParseSpan(absoluteKeyOffset, absoluteKeyOffset + Len(templateKey)))))

\* Parser.createInterpolationAst
CreateInterpolationAst(op, strings, nodes, input, absoluteOffset, last) ==
  LET span == ParseSpan(0, Len(input))
  IN CallReturn(last.errors,
              [Result(op, input, absoluteOffset, last.errors) EXCEPT
                 !.strings = strings, !.skips = last.skips, !.context = last.context,
                 !.ast = NewAst("Interpolation", span, ToAbsolute(span, absoluteOffset),
                                << >>, nodes)])

\* the for loop of parseInterpolation from expression i on; last is the
\* _ParseAST of the expression before (one that parsed nothing before the
\* first): ret is expressionNodes, errors the array after the loop
ParseExpressions(last, input, absoluteOffset, split, i, expressionNodes) ==
  IF i > Len(split.expressions) THEN [last EXCEPT !.ret = expressionNodes]
  ELSE LET Parsed(p) ==
             ParseExpressions(p, input, absoluteOffset, split, i + 1,
                              Append(expressionNodes, p.ast))
       IN Parsed(ParseChain(
                   [NewParseAST(input, absoluteOffset,
                                Tokenize(StripComments(split.expressions[i].text)),
                                FALSE, FALSE, last.errors, split.offsets[i])
                      EXCEPT !.skips = last.skips]))

\* Parser.parseInterpolation
ParseInterpolation(errs, input, absoluteOffset) ==
  LET Parsed(split, parsed) ==
        CreateInterpolationAst(
          "parseInterpolation", [k \in DOMAIN split.strings |-> split.strings[k].text],
          parsed.ret, input, absoluteOffset, parsed)
      Split(split) ==
        IF Len(split.expressions) = 0
          THEN CallReturn(split.errors,
                          [Result("parseInterpolation", input, absoluteOffset, split.errors)
                             EXCEPT !.isNull = TRUE])
          ELSE Parsed(split,
                      ParseExpressions(NewParseAST(input, absoluteOffset, << >>, FALSE,
                                                   FALSE, split.errors, 0),
                                       input, absoluteOffset, split, 1, << >>))
  IN Split(SplitInterpolation(errs, input))

\* Parser.parseInterpolationExpression
ParseInterpolationExpression(errs, expression, absoluteOffset) ==
  LET Parsed(p) ==
        CreateInterpolationAst("parseInterpolationExpression", << << >>, << >> >>,
                               <<p.ast>>, expression, absoluteOffset, p)
  IN Parsed(ParseChain(NewParseAST(expression, absoluteOffset,
                                   Tokenize(StripComments(expression)),
                                   FALSE, FALSE, errs, 0)))

\* Parser.splitInterpolation, called from outside
SplitInterpolationOf(errs, input) ==
  LET Split(split) ==
        CallReturn(split.errors,
                   [Result("splitInterpolation", input, 0, split.errors) EXCEPT
                      !.strings = split.strings, !.expressions = split.expressions,
                      !.offsets = split.offsets])
  IN Split(SplitInterpolation(errs, input))

(***************************************************************************)
(* The calls made on one Parser instance.  An input is a concatenation of  *)
(* at most MaxWords of the words of the run; the Parser starts with an     *)
(* empty errors array (part_009:61) and every call appends what it         *)
(* returned to results.                                                    *)
(***************************************************************************)
binderVars == <<target, pc, scope, templateEntities, directives, bindings, references,
                expressions, symbols, nestingLevel, usedPipes, thrown, bound>>

AbsoluteOffsets == {0, 3}
TemplateKeys == { <<"n", "g", "F", "o", "r">>, <<"n", "g", "I", "f">> }

Inputs == { Concat(ws) : ws \in UNION { [1..n -> words] : n \in 0..MaxWords } }

\* the call returns r.result and leaves r.errors in the array of the Parser;
\* a call that never returns is the last thing the run does
Call(r) ==
  /\ callsLeft > 0
  /\ errors' = r.errors
  /\ results' = Append(results, r.result)
  /\ callsLeft' = IF r.result.hangs THEN 0 ELSE callsLeft - 1
  /\ UNCHANGED words
  /\ UNCHANGED binderVars

ParseActionCall ==
  /\ callsLeft > 0
  /\ \E input \in Inputs : \E isAssignmentEvent \in BOOLEAN :
       \E absoluteOffset \in AbsoluteOffsets :
         Call(ParseAction(errors, input, isAssignmentEvent, absoluteOffset))

ParseBindingCall ==
  /\ callsLeft > 0
  /\ \E input \in Inputs : \E absoluteOffset \in AbsoluteOffsets :
       Call(ParseBinding(errors, input, absoluteOffset))

ParseSimpleBindingCall ==
  /\ callsLeft > 0
  /\ \E input \in Inputs : \E absoluteOffset \in AbsoluteOffsets :
       Call(ParseSimpleBinding(errors, input, absoluteOffset))

ParseTemplateBindingsCall ==
  /\ callsLeft > 0
  /\ \E templateValue \in Inputs : \E templateKey \in TemplateKeys :
       \E absoluteValueOffset \in AbsoluteOffsets :
         Call(ParseTemplateBindings(errors, templateKey, templateValue, 0,
                                    absoluteValueOffset))

ParseInterpolationCall ==
  /\ callsLeft > 0
  /\ \E input \in Inputs : \E absoluteOffset \in AbsoluteOffsets :
       Call(ParseInterpolation(errors, input, absoluteOffset))

ParseInterpolationExpressionCall ==
  /\ callsLeft > 0
  /\ \E expression \in Inputs : \E absoluteOffset \in AbsoluteOffsets :
       Call(ParseInterpolationExpression(errors, expression, absoluteOffset))

SplitInterpolationCall ==
  /\ callsLeft > 0
  /\ \E input \in Inputs : Call(SplitInterpolationOf(errors, input))

NextParser ==
  \/ ParseActionCall
  \/ ParseBindingCall
  \/ ParseSimpleBindingCall
  \/ ParseTemplateBindingsCall
  \/ ParseInterpolationCall
  \/ ParseInterpolationExpressionCall
  \/ SplitInterpolationCall

\* a new Parser, on which `calls` calls are made with inputs made of `ws`
InitParser(ws, calls) ==
  /\ target = NoTemplateTarget
  /\ pc = "idle"
  /\ scope = EmptyMap
  /\ templateEntities = EmptyMap
  /\ directives = EmptyMap
  /\ bindings = EmptyMap
  /\ references = EmptyMap
  /\ expressions = EmptyMap
  /\ symbols = EmptyMap
  /\ nestingLevel = EmptyMap
  /\ usedPipes = << >>
  /\ thrown = NoError
  /\ bound = FALSE
  /\ words = ws
  /\ callsLeft = calls
  /\ errors = << >>
  /\ results = << >>

\* expressions: property and keyed access, assignment, chains, pipes
ExpressionWords ==
  { <<"a">>, <<".", "b">>, <<"[", "b", "]">>, <<"=">>, <<";">>, <<"a", ";">>, <<" ">>,
    <<"|">> }

\* interpolation delimiters, quotes and comments
InterpolationWords ==
  { <<"{", "{">>, <<"}", "}">>, <<"'", "}", "}", "'">>, <<"/", "/">>, <<"a">>,
    <<" ">>, <<"|">> }

\* the template micro-syntax
LetWord == <<"l", "e", "t", " ", "a", " ">>
AssignWord == <<"=", " ", "y", " ">>
OfWord == <<"o", "f", " ", "b", " ">>
TrackWord == <<"t", ":", " ", "c", " ">>
AsWord == <<"a", "s", " ", "x", " ">>
ExprWord == <<"c", " ">>
TemplateWords == { LetWord, AssignWord, OfWord, TrackWord, AsWord, ExprWord, <<";">> }

\* an input parsed again on the same Parser
RepeatedWords == { <<"a", ";">> }

\* a conditional, a binary operator and a pipe
ConditionWord == <<"c", " ">>
YesWord == <<"?", " ", "x", " ">>
NoWord == <<":", " ", "y", " ">>
PipeWord == <<"|", " ", "p", " ">>
PlusWord == <<"+", " ", "b", " ">>
PrecedenceWords == { ConditionWord, YesWord, NoWord, PipeWord, PlusWord }

\* error recovery: an incomplete property access, alone and after an
\* opening parenthesis or bracket, a brace, the closing symbols, the
\* separators, an assignment and a character the lexer rejects
RecoveryWords ==
  { <<"a", ".">>, <<"(", "a", ".">>, <<"[", "a", ".">>, <<"{">>, <<")">>, <<"]">>,
    <<"}">>, <<"=">>, <<";">>, <<"|">>, <<"@">> }

\* a template value with a keyed access, separators, an assignment and
\* closing symbols
KeyedWord == <<"a", "[", "b", "]">>
KeyedTemplateWords ==
  { KeyedWord, ExprWord, <<";">>, <<"=">>, <<" ">>, <<"|">>, <<")">> }

InitExpressions == InitParser(ExpressionWords, 1)
InitInterpolations == InitParser(InterpolationWords, 1)
InitTemplates == InitParser(TemplateWords, 1)
InitRepeated == InitParser(RepeatedWords, MaxCalls)
InitPrecedence == InitParser(PrecedenceWords, 1)

SpecExpressions == InitExpressions /\ [][NextParser]_vars
SpecInterpolations == InitInterpolations /\ [][NextParser]_vars
SpecTemplates == InitTemplates /\ [][NextParser]_vars
SpecRepeated == InitRepeated /\ [][NextParser]_vars
SpecPrecedence == InitPrecedence /\ [][NextParser]_vars

\* the two entry points of parseChain alone
NextChain ==
  \/ ParseActionCall
  \/ ParseBindingCall

\* the template micro-syntax alone
NextTemplate ==
  \/ ParseTemplateBindingsCall

InitKeyedTemplates == InitParser(KeyedTemplateWords, 1)
SpecKeyedTemplates == InitKeyedTemplates /\ [][NextTemplate]_vars

InitRecovery == InitParser(RecoveryWords, 1)
SpecRecovery == InitRecovery /\ [][NextChain]_vars

\* the last call made and what it returned
Last == results[Len(results)]
HasResult == Len(results) > 0

\* parseAction, parseBinding and parseSimpleBinding: the calls that parse one
\* chain of expressions from the whole input
IsChainCall(r) == r.op \in {"parseAction", "parseBinding", "parseSimpleBinding"}

\* the input lexes to no token: it is empty, blank, or only a line comment
LexesToNothing(input) == Tokenize(StripComments(input)) = << >>

(***************************************************************************)
(* C11: parseAction and parseBinding on an input that lexes to zero tokens *)
(* (empty, whitespace only, or only a line comment) add no error and       *)
(* return a single EmptyExpr whose span is [0, input.length) and whose     *)
(* absolute span is [absoluteOffset, absoluteOffset + input.length).       *)
(***************************************************************************)
C11_EmptyInputIsEmptyExpr ==
  \A k \in DOMAIN results :
    LET r == results[k]
    IN (r.op \in {"parseAction", "parseBinding"} /\ LexesToNothing(r.input)) =>
         /\ r.errorsAtReturn = << >>
         /\ errors = << >>
         /\ r.ast.type = "EmptyExpr"
         /\ r.ast.children = << >>
         /\ r.ast.span = ParseSpan(0, Len(r.input))
         /\ r.ast.sourceSpan =
              ParseSpan(r.absoluteOffset, r.absoluteOffset + Len(r.input))

\* parseBinding of a blank followed by a line comment, at absolute offset 3
C11_Witness ==
  /\ HasResult
  /\ Last.op = "parseBinding"
  /\ Last.input = <<" ", "/", "/", "a">>
  /\ Last.absoluteOffset = 3
  /\ Last.ast.type = "EmptyExpr"

\* the pieces of a text between the occurrences of a character
RECURSIVE SplitAt(_, _, _)
SplitAt(text, char, piece) ==
  IF text = << >> THEN <<piece>>
  ELSE IF Head(text) = char THEN <<piece>> \o SplitAt(Tail(text), char, << >>)
  ELSE SplitAt(Tail(text), char, Append(piece, Head(text)))

\* a node without its spans: the variant, the name or value, the children
RECURSIVE Shape(_)
Shape(ast) ==
  [type |-> ast.type, name |-> ast.name,
   children |-> [k \in DOMAIN ast.children |-> Shape(ast.children[k])]]

\* what parseAction makes of a text on a new Parser
AloneAsAction(text) == ParseAction(<< >>, text, FALSE, 0)

\* a text that is an expression by itself: an action with no error
IsWellFormed(text) ==
  /\ AloneAsAction(text).errors = << >>
  /\ AloneAsAction(text).result.ast.type # "EmptyExpr"

\* n >= 2 well-formed expressions separated by `;` (the pieces of these
\* inputs hold no quote, so every `;` separates)
IsWellFormedChain(input) ==
  LET parts == SplitAt(input, ";", << >>)
  IN /\ Len(parts) >= 2
     /\ \A k \in DOMAIN parts : IsWellFormed(parts[k])

HasError(errs, message, input) ==
  \E k \in DOMAIN errs : errs[k].message = message /\ errs[k].input = input

(***************************************************************************)
(* C12: for an input of n >= 2 well-formed expressions separated by `;`,   *)
(* parseAction returns a Chain whose expressions are the n parsed          *)
(* expressions in source order and records no chaining error, while        *)
(* parseBinding records at least one error 'Binding expression cannot      *)
(* contain chained expression' and still returns an AST.                   *)
(***************************************************************************)
C12_ChainInActionErrorInBinding ==
  \A k \in DOMAIN results :
    LET r == results[k]
        parts == SplitAt(r.input, ";", << >>)
    IN IsWellFormedChain(r.input) =>
         /\ r.op = "parseAction" =>
              /\ r.ast.type = "Chain"
              /\ Len(r.ast.children) = Len(parts)
              /\ \A i \in DOMAIN parts :
                   Shape(r.ast.children[i]) = Shape(AloneAsAction(parts[i]).result.ast)
              /\ ~HasError(r.errorsAtReturn, ChainedExpression, r.input)
         /\ r.op = "parseBinding" =>
              /\ HasError(r.errorsAtReturn, ChainedExpression, r.input)
              /\ r.ast.type # "None"

\* parseBinding of three expressions, the last a keyed read
C12_Witness ==
  /\ HasResult
  /\ Last.op = "parseBinding"
  /\ Last.input = <<"a", ";", "a", ";", "a", "[", "b", "]">>
  /\ HasError(Last.errorsAtReturn, ChainedExpression, Last.input)

\* parseAction of three expressions, the last a property read
C12_WitnessAction ==
  /\ HasResult
  /\ Last.op = "parseAction"
  /\ Last.input = <<"a", ";", "a", ";", "a", ".", "b">>
  /\ Last.ast.type = "Chain"
  /\ Len(Last.ast.children) = 3

\* the nodes of a tree, the root included
RECURSIVE NodesOf(_)
NodesOf(ast) == {ast} \cup UNION { NodesOf(ast.children[k]) : k \in DOMAIN ast.children }

IsBindingCall(r) == r.op \in {"parseBinding", "parseSimpleBinding"}

\* the input holds the assignment operator
HasAssignment(input) ==
  \E k \in DOMAIN Tokenize(StripComments(input)) :
    IsOperator(Tokenize(StripComments(input))[k], <<"=">>)

(***************************************************************************)
(* C13: parseBinding (and parseSimpleBinding) records an error for every   *)
(* assignment in the input, whether the target is a property (a.b = c) or  *)
(* a keyed access (a[b] = c), and never returns a PropertyWrite or         *)
(* KeyedWrite node without an accompanying error.                          *)
(***************************************************************************)
C13_BindingAssignmentsAreErrors ==
  \A k \in DOMAIN results :
    LET r == results[k]
    IN IsBindingCall(r) =>
         /\ HasAssignment(r.input) => r.errorsAtReturn # << >>
         /\ (\E n \in NodesOf(r.ast) : n.type \in {"PropertyWrite", "KeyedWrite"}) =>
              r.errorsAtReturn # << >>

\* The part of C13 the code keeps: an assignment to a property is reported,
\* and no binding holds a PropertyWrite.
C13_PropertyAssignmentsAreErrors ==
  \A k \in DOMAIN results :
    LET r == results[k]
    IN IsBindingCall(r) =>
         /\ \A n \in NodesOf(r.ast) : n.type # "PropertyWrite"
         /\ (HasAssignment(r.input) /\ \A n \in NodesOf(r.ast) : n.type # "KeyedWrite") =>
              r.errorsAtReturn # << >>

\* parseBinding of a[b]=a returns a KeyedWrite and no error
C13_KeyedWriteWithoutError ==
  /\ HasResult
  /\ Last.op = "parseBinding"
  /\ Last.input = <<"a", "[", "b", "]", "=", "a">>
  /\ Last.ast.type = "KeyedWrite"
  /\ Last.errorsAtReturn = << >>

\* the input holds, outside quotes, an opening delimiter from position `from`
\* on and a closing delimiter after it
HoldsInterpolation(input, from) ==
  LET unquoted == ForEachUnquotedChar(input, 0, NoQuote, 0)
  IN \E i \in DOMAIN unquoted : \E j \in DOMAIN unquoted :
       /\ unquoted[i] >= from
       /\ StartsWith(input, InterpStart, unquoted[i])
       /\ unquoted[j] >= unquoted[i] + Len(InterpStart)
       /\ StartsWith(input, InterpEnd, unquoted[j])

(***************************************************************************)
(* C14: parseAction and parseBinding record a 'Got interpolation ... where *)
(* expression was expected' error whenever the input contains, at any      *)
(* position outside quotes, an opening interpolation delimiter followed    *)
(* later by a closing delimiter, and record no such error otherwise.       *)
(***************************************************************************)
C14_InterpolationAnywhereIsReported ==
  \A k \in DOMAIN results :
    LET r == results[k]
    IN r.op \in {"parseAction", "parseBinding"} =>
         (HasError(r.errorsAtReturn, GotInterpolation, r.input)
            <=> HoldsInterpolation(r.input, 0))

\* What the code does: the error is recorded only for an input that begins
\* with the opening delimiter, and for every such input in which a closing
\* delimiter follows outside quotes.
C14_LeadingInterpolationIsReported ==
  \A k \in DOMAIN results :
    LET r == results[k]
        reported == HasError(r.errorsAtReturn, GotInterpolation, r.input)
    IN r.op \in {"parseAction", "parseBinding"} =>
         /\ reported => StartsWith(r.input, InterpStart, 0)
         /\ (StartsWith(r.input, InterpStart, 0) /\ HoldsInterpolation(r.input, 0))
              => reported

\* parseBinding of a{{a}}: an interpolation after the first character, and
\* no interpolation error
C14_InterpolationNotReported ==
  /\ HasResult
  /\ Last.op = "parseBinding"
  /\ Last.input = <<"a", "{", "{", "a", "}", "}">>
  /\ ~HasError(Last.errorsAtReturn, GotInterpolation, Last.input)

\* the raw strings and the delimited expressions put back in their order
RECURSIVE Rebuild(_, _)
Rebuild(strings, exprs) ==
  IF strings = << >> THEN << >>
  ELSE Head(strings).text \o
       (IF exprs = << >> THEN << >>
        ELSE InterpStart \o Head(exprs).text \o InterpEnd) \o
       Rebuild(Tail(strings), IF exprs = << >> THEN << >> ELSE Tail(exprs))

\* no opening delimiter, or none whose expression ends
HasNoExpression(input) ==
  LET i == IndexOf(input, InterpStart, 0)
  IN i = -1 \/ GetInterpolationEndIndex(input, InterpEnd, i + Len(InterpStart)) = -1

\* the split of an input on a new Parser
SplitAlone(input) == SplitInterpolation(<< >>, input)

(***************************************************************************)
(* C15: parseInterpolation returns null exactly when splitting the input   *)
(* yields zero expression segments, and an Interpolation with one          *)
(* expression per segment otherwise; an opening delimiter with no matching *)
(* closing delimiter after it produces no expression segment and no error, *)
(* and the text from that delimiter to the end of input is appended to the *)
(* last literal string.                                                    *)
(***************************************************************************)
C15_NullWithoutSegmentsAndLiteralTail ==
  \A k \in DOMAIN results :
    LET r == results[k]
    IN /\ r.op = "parseInterpolation" =>
            /\ r.isNull <=> HasNoExpression(r.input)
            /\ r.isNull <=> SplitAlone(r.input).expressions = << >>
            /\ ~r.isNull =>
                 /\ r.ast.type = "Interpolation"
                 /\ Len(r.ast.children) = Len(SplitAlone(r.input).expressions)
                 /\ Len(r.strings) = Len(r.ast.children) + 1
       /\ r.op = "splitInterpolation" =>
            /\ Len(r.strings) = Len(r.expressions) + 1
            /\ Rebuild(r.strings, r.expressions) = r.input
            \* a raw string holds an opening delimiter only when it is the last
            \* one and runs to the end of the input
            /\ \A n \in DOMAIN r.strings :
                 IndexOf(r.strings[n].text, InterpStart, 0) # -1 =>
                   /\ n = Len(r.strings)
                   /\ r.strings[n].end = Len(r.input)
                   /\ r.strings[n].text =
                        Substring(r.input, r.strings[n].start, Len(r.input))
            \* the only errors are those of blank expressions, one each
            /\ Len(r.errorsAtReturn) =
                 Cardinality({n \in DOMAIN r.expressions :
                                TrimIsEmpty(r.expressions[n].text)})
            /\ \A n \in DOMAIN r.errorsAtReturn :
                 r.errorsAtReturn[n].message = BlankExpression

\* splitInterpolation of {{a}}{{: one segment, then an unterminated opening
\* delimiter that ends up in the last raw string, and no error
C15_Witness ==
  /\ HasResult
  /\ Last.op = "splitInterpolation"
  /\ Last.input = <<"{", "{", "a", "}", "}", "{", "{">>
  /\ Len(Last.expressions) = 1
  /\ Last.strings[2].text = <<"{", "{">>
  /\ Last.errorsAtReturn = << >>

\* parseInterpolation of {{a: null
C15_WitnessNull ==
  /\ HasResult
  /\ Last.op = "parseInterpolation"
  /\ Last.input = <<"{", "{", "a">>
  /\ Last.isNull

\* the positions from `start` on that are outside quotes
UnquotedFrom(input, start) ==
  LET charIndexes == ForEachUnquotedChar(input, start, NoQuote, 0)
  IN { charIndexes[k] : k \in DOMAIN charIndexes }

LineComment == <<"/", "/">>

\* e is a closing delimiter outside quotes with no comment marker outside
\* quotes before it, counted from the start of the expression
IsPlainEnd(input, exprStart, e) ==
  /\ e \in UnquotedFrom(input, exprStart)
  /\ StartsWith(input, InterpEnd, e)
  /\ \A c \in UnquotedFrom(input, exprStart) : c < e => ~StartsWith(input, LineComment, c)

\* e is the first closing delimiter, quoted or not, at or after the first
\* comment marker outside quotes, no plain end coming before that marker
IsEndInComment(input, exprStart, e) ==
  \E c \in UnquotedFrom(input, exprStart) :
    /\ StartsWith(input, LineComment, c)
    /\ \A b \in UnquotedFrom(input, exprStart) :
         b < c => ~StartsWith(input, LineComment, b) /\ ~StartsWith(input, InterpEnd, b)
    /\ c <= e
    /\ StartsWith(input, InterpEnd, e)
    /\ \A b \in c..(e - 1) : ~StartsWith(input, InterpEnd, b)

\* the expression segments of a splitInterpolation result, as pairs of the
\* start and the end of the expression text
ExpressionBounds(r) ==
  { <<r.expressions[n].start + Len(InterpStart), r.expressions[n].end - Len(InterpEnd)>> :
      n \in DOMAIN r.expressions }

(***************************************************************************)
(* C16 as stated: when splitting an interpolation, a closing delimiter     *)
(* inside a quoted substring of the expression, or after a // line-comment *)
(* marker within the expression, does not terminate the segment; the       *)
(* segment ends at the first closing delimiter that is outside quotes and  *)
(* not in a comment.                                                       *)
(***************************************************************************)
C16_EndOutsideQuotesAndComments ==
  \A k \in DOMAIN results :
    results[k].op = "splitInterpolation" =>
      \A b \in ExpressionBounds(results[k]) :
        /\ IsPlainEnd(results[k].input, b[1], b[2])
        /\ \A e \in b[1]..(b[2] - 1) : ~IsPlainEnd(results[k].input, b[1], e)

(***************************************************************************)
(* C16 as the code has it: a closing delimiter inside a quoted substring   *)
(* does not terminate the expression segment as long as no // marker has   *)
(* been met outside quotes; the segment ends at the first closing          *)
(* delimiter outside quotes, or, once a // marker outside quotes is met    *)
(* first, at the first closing delimiter at or after that marker, quoted   *)
(* or not.                                                                 *)
(***************************************************************************)
C16_EndOutsideQuotesOrAfterComment ==
  \A k \in DOMAIN results :
    results[k].op = "splitInterpolation" =>
      \A b \in ExpressionBounds(results[k]) :
        /\ \/ IsPlainEnd(results[k].input, b[1], b[2])
           \/ IsEndInComment(results[k].input, b[1], b[2])
        /\ \A e \in b[1]..(b[2] - 1) :
             /\ ~IsPlainEnd(results[k].input, b[1], e)
             /\ ~IsEndInComment(results[k].input, b[1], e)

\* splitInterpolation of {{'}}'}}: the quoted closing delimiter is passed over
C16_Witness ==
  /\ HasResult
  /\ Last.op = "splitInterpolation"
  /\ Last.input = <<"{", "{", "'", "}", "}", "'", "}", "}">>
  /\ Len(Last.expressions) = 1
  /\ Last.expressions[1].text = <<"'", "}", "}", "'">>

\* splitInterpolation of {{//'}}': after the comment marker the quoted closing
\* delimiter ends the segment
C16_WitnessComment ==
  /\ HasResult
  /\ Last.op = "splitInterpolation"
  /\ Last.input = <<"{", "{", "/", "/", "'", "}", "}", "'">>
  /\ Len(Last.expressions) = 1
  /\ Last.expressions[1].text = <<"/", "/", "'">>

\* the words an input of the micro-syntax family is made of, in order (no
\* two of them begin with the same character)
RECURSIVE WordsOf(_)
WordsOf(text) ==
  IF text = << >> THEN << >>
  ELSE LET w == CHOOSE w \in TemplateWords : StartsWith(text, w, 0)
       IN <<w>> \o WordsOf(Substring(text, Len(w), Len(text)))

\* a binding reduced to its kind, the name of its key and its value: null,
\* the name an expression reads, or an identifier
Bound(type, key, kind, text) == [type |-> type, key |-> key, kind |-> kind, text |-> text]
BoundOf(b) ==
  Bound(b.type, b.key.source, b.value.kind,
        IF b.value.kind = "ast"
          THEN (IF b.value.ast.type = "PropertyRead" THEN b.value.ast.name
                ELSE <<b.value.ast.type>>)
        ELSE IF b.value.kind = "identifier" THEN b.value.id.source
        ELSE << >>)

\* The bindings well-formed micro-syntax stands for, read off its words:
\* `let a` declares a, `= y` gives it a value, `of b` and `t: c` bind the
\* keyword put after the directive key with its first letter upper-cased,
\* `as x` names the expression binding before it, `;` ends a statement.
\* state is what the last word was; ok is FALSE for a sequence that is not
\* well-formed.
RECURSIVE ReadWords(_, _, _, _, _)
ReadWords(ws, state, lastKey, templateKey, out) ==
  IF ws = << >> THEN [ok |-> TRUE, out |-> out]
  ELSE LET w == Head(ws)
           rest == Tail(ws)
       IN IF w = LetWord
            THEN ReadWords(rest, "let", lastKey, templateKey,
                           Append(out, Bound("VariableBinding", <<"a">>, "null", << >>)))
          ELSE IF w = AssignWord /\ state = "let"
            THEN ReadWords(rest, "done", lastKey, templateKey,
                           [out EXCEPT ![Len(out)] =
                              Bound("VariableBinding", <<"a">>, "identifier", <<"y">>)])
          ELSE IF w = ExprWord /\ state = "start"
            THEN ReadWords(rest, "expr", lastKey, templateKey,
                           [out EXCEPT ![1] =
                              Bound("ExpressionBinding", templateKey, "ast", <<"c">>)])
          ELSE IF w = OfWord /\ state # "start"
            THEN ReadWords(rest, "expr", templateKey \o <<"O", "f">>, templateKey,
                           Append(out, Bound("ExpressionBinding",
                                             templateKey \o <<"O", "f">>, "ast", <<"b">>)))
          ELSE IF w = TrackWord /\ state # "start"
            THEN ReadWords(rest, "expr", templateKey \o <<"T">>, templateKey,
                           Append(out, Bound("ExpressionBinding",
                                             templateKey \o <<"T">>, "ast", <<"c">>)))
          ELSE IF w = AsWord /\ state \in {"start", "expr"}
            THEN ReadWords(rest, "done", lastKey, templateKey,
                           Append(out, Bound("VariableBinding", <<"x">>, "identifier",
                                             lastKey)))
          ELSE IF w = <<";">> /\ state \in {"expr", "let", "done"}
            THEN ReadWords(rest, "end", lastKey, templateKey, out)
          ELSE [ok |-> FALSE, out |-> out]

ReadBindings(templateKey, templateValue) ==
  ReadWords(WordsOf(templateValue), "start", templateKey, templateKey,
            <<Bound("ExpressionBinding", templateKey, "null", << >>)>>)

(***************************************************************************)
(* C17: parseTemplateBindings returns bindings in source order with no     *)
(* errors for well-formed micro-syntax: the first binding is an expression *)
(* binding keyed by the directive key (value null when the value text      *)
(* starts with let/as or is empty, otherwise the leading expression); each *)
(* `let x` / `let x = y` yields a variable binding; each bare keyword kw   *)
(* followed by an expression yields an expression binding named            *)
(* templateKey + kw with kw's first letter upper-cased.                    *)
(***************************************************************************)
C17_WellFormedMicroSyntax ==
  \A k \in DOMAIN results :
    LET r == results[k]
        read == ReadBindings(r.templateKey, r.input)
    IN (r.op = "parseTemplateBindings" /\ read.ok) =>
         /\ r.errorsAtReturn = << >>
         /\ ~r.hangs
         /\ Len(r.templateBindings) = Len(read.out)
         /\ \A n \in DOMAIN read.out : BoundOf(r.templateBindings[n]) = read.out[n]

\* key ngFor, value `let a of b ;t: c `: [ngFor -> null, a, ngForOf -> b,
\* ngForT -> c]
C17_Witness ==
  /\ HasResult
  /\ Last.op = "parseTemplateBindings"
  /\ Last.templateKey = <<"n", "g", "F", "o", "r">>
  /\ Last.input = LetWord \o OfWord \o <<";">> \o TrackWord
  /\ Len(Last.templateBindings) = 4
  /\ Last.templateBindings[3].key.source = <<"n", "g", "F", "o", "r", "O", "f">>
  /\ Last.templateBindings[4].key.source = <<"n", "g", "F", "o", "r", "T">>
  /\ Last.errorsAtReturn = << >>

\* every node of the result lies within the input: k <= start <= end <= k + length
SpansWithinInput(r) ==
  \A n \in NodesOf(r.ast) :
    /\ r.absoluteOffset <= n.sourceSpan.start
    /\ n.sourceSpan.start <= n.sourceSpan.end
    /\ n.sourceSpan.end <= r.absoluteOffset + Len(r.input)

(***************************************************************************)
(* C18: for every AST node produced by parseAction, parseBinding,          *)
(* parseInterpolation or parseInterpolationExpression from input s at      *)
(* absolute offset k, k <= node.sourceSpan.start <= node.sourceSpan.end    *)
(* <= k + s.length; this includes EmptyExpr nodes for blank interpolation  *)
(* segments and BindingPipe nodes with a missing pipe name inside an       *)
(* interpolation.                                                          *)
(***************************************************************************)
C18_SpansWithinInput ==
  \A k \in DOMAIN results :
    (/\ results[k].op \in {"parseAction", "parseBinding", "parseInterpolation",
                           "parseInterpolationExpression"}
     /\ ~results[k].isNull)
      => SpansWithinInput(results[k])

\* The part of C18 the code keeps: the calls that parse the whole input from
\* offset 0.
C18_SpansWithinInputFromOffsetZero ==
  \A k \in DOMAIN results :
    results[k].op \in {"parseAction", "parseBinding", "parseInterpolationExpression"}
      => SpansWithinInput(results[k])

\* parseInterpolation of {{ }} at absolute offset 0: the EmptyExpr of the blank
\* segment ends at 7, two past the end of the input
C18_EmptyExprPastTheEnd ==
  /\ HasResult
  /\ Last.op = "parseInterpolation"
  /\ Last.input = <<"{", "{", " ", "}", "}">>
  /\ Last.absoluteOffset = 0
  /\ Last.ast.children[1].type = "EmptyExpr"
  /\ Last.ast.children[1].sourceSpan = ParseSpan(2, 7)

\* parseInterpolation of {{a|}} at absolute offset 0: the BindingPipe with no
\* name ends at 8, two past the end of the input
C18_PipePastTheEnd ==
  /\ HasResult
  /\ Last.op = "parseInterpolation"
  /\ Last.input = <<"{", "{", "a", "|", "}", "}">>
  /\ Last.absoluteOffset = 0
  /\ Last.ast.children[1].type = "BindingPipe"
  /\ Last.ast.children[1].sourceSpan.end = 8

\* two calls of the same method with the same parameters
SameCall(r1, r2) ==
  /\ r1.op = r2.op
  /\ r1.input = r2.input
  /\ r1.absoluteOffset = r2.absoluteOffset
  /\ r1.isAssignmentEvent = r2.isAssignmentEvent
  /\ r1.templateKey = r2.templateKey

\* the calls that return an object with an `errors` field
HasErrorsField(r) == r.op # "splitInterpolation" /\ ~r.isNull

\* The errors of a returned ASTWithSource or TemplateBindingParseResult: the
\* constructor is handed this.errors, so the field is the array of the Parser
\* and reads what that array holds now.
ErrorsOfResult(k) == errors

(***************************************************************************)
(* C19: parsing the same input twice with the same parameters, including   *)
(* two successive calls on the same Parser instance, returns structurally  *)
(* equal ASTs and the same ordered error list: the errors of the second    *)
(* result equal the errors of the first result.                            *)
(***************************************************************************)
C19_SameInputSameResult ==
  \A i \in DOMAIN results : \A j \in DOMAIN results :
    (i < j /\ SameCall(results[i], results[j])) =>
      /\ results[j].isNull = results[i].isNull
      /\ results[j].ast = results[i].ast
      /\ results[j].templateBindings = results[i].templateBindings
      /\ results[j].errorsAtReturn = results[i].errorsAtReturn

\* The part of C19 the code keeps: the same call returns the same tree, the
\* same bindings and the same strings.
C19_SameInputSameAst ==
  \A i \in DOMAIN results : \A j \in DOMAIN results :
    (i < j /\ SameCall(results[i], results[j])) =>
      /\ results[j].isNull = results[i].isNull
      /\ results[j].ast = results[i].ast
      /\ results[j].templateBindings = results[i].templateBindings
      /\ results[j].strings = results[i].strings

\* parseBinding of a; called twice: one error after the first call, two after
\* the second
C19_ErrorsDoubled ==
  /\ Len(results) = 2
  /\ SameCall(results[1], results[2])
  /\ results[1].op = "parseBinding"
  /\ results[1].input = <<"a", ";">>
  /\ Len(results[1].errorsAtReturn) = 1
  /\ Len(results[2].errorsAtReturn) = 2

(***************************************************************************)
(* C20: each parse operation uses its own error list and returns an        *)
(* immutable result: a later parse call on the same Parser instance leaves *)
(* the errors of every previously returned ASTWithSource or                *)
(* TemplateBindingParseResult unchanged, and a result's errors contain     *)
(* only errors raised while parsing that result's own input.               *)
(***************************************************************************)
C20_ErrorsOfResultsAreTheirOwn ==
  \A k \in DOMAIN results :
    HasErrorsField(results[k]) =>
      /\ ErrorsOfResult(k) = results[k].errorsAtReturn
      /\ \A n \in DOMAIN ErrorsOfResult(k) :
           ErrorsOfResult(k)[n].input = results[k].input

\* parseAction of a, then parseBinding of a;a; : the first result had no
\* error when it was returned and now shows the error of the second input
C20_ErrorsOfEarlierResultChanged ==
  /\ Len(results) = 2
  /\ results[1].op = "parseAction"
  /\ results[1].input = <<"a", ";">>
  /\ results[1].errorsAtReturn = << >>
  /\ results[2].op = "parseBinding"
  /\ results[2].input = <<"a", ";", "a", ";">>
  /\ Len(ErrorsOfResult(1)) = 1
  /\ ErrorsOfResult(1)[1].input = results[2].input

\* the calls that parse one chain and may hold a pipe
TakesPipes(r) == r.op \in {"parseBinding", "parseInterpolationExpression"}

\* the expression of the result: parseInterpolationExpression wraps it
RootOf(r) == IF r.op = "parseBinding" THEN r.ast ELSE r.ast.children[1]

ConditionalThenPipe == Concat(<<ConditionWord, YesWord, NoWord, PipeWord>>)
\* the first position of the character in the input, or one after its end
FirstIndexOf(input, char) ==
  IF \E k \in DOMAIN input : input[k] = char
    THEN CHOOSE k \in DOMAIN input :
           input[k] = char /\ \A j \in 1..(k - 1) : input[j] # char
    ELSE Len(input) + 1
QuestionFirst(input) == FirstIndexOf(input, "?") < FirstIndexOf(input, "|")
PipeFirst(input) == FirstIndexOf(input, "|") < FirstIndexOf(input, "?")
EndsWithPipe(input) ==
  /\ Len(input) >= Len(PipeWord)
  /\ SubSeq(input, Len(input) - Len(PipeWord) + 1, Len(input)) = PipeWord

(***************************************************************************)
(* C21: the pipe operator has the lowest precedence of the expression      *)
(* grammar, below the conditional: for an input of the form                *)
(* `c ? x : y | p` the root of the AST is a BindingPipe named p whose       *)
(* expression is the whole Conditional, not a Conditional whose false      *)
(* branch is the pipe.                                                     *)
(***************************************************************************)
C21_PipeBelowConditional ==
  \A k \in DOMAIN results :
    LET r == results[k]
    IN (TakesPipes(r) /\ r.input = ConditionalThenPipe) =>
         /\ RootOf(r).type = "BindingPipe"
         /\ RootOf(r).name = <<"p">>
         /\ RootOf(r).children[1].type = "Conditional"

\* C21 as the code has it: a pipe is below every binary operator and takes
\* the whole expression before it, but the branches of a conditional are
\* parsed as pipes themselves.  So when the first `?` comes before any `|`
\* the root is the Conditional, and a pipe that ends the input belongs to
\* its false branch; when the first `|` comes before any `?` the root is the
\* pipe; and neither an operand of a binary operator nor the condition of a
\* conditional is a pipe.
C21_PipeBelowBinaryInsideBranch ==
  \A k \in DOMAIN results :
    LET r == results[k]
    IN (TakesPipes(r) /\ r.errorsAtReturn = << >> /\ r.input # << >>) =>
         /\ \A n \in NodesOf(RootOf(r)) :
              /\ n.type = "Binary" =>
                   \A i \in DOMAIN n.children : n.children[i].type # "BindingPipe"
              /\ n.type = "Conditional" => n.children[1].type # "BindingPipe"
         /\ PipeFirst(r.input) =>
              /\ RootOf(r).type = "BindingPipe"
              /\ RootOf(r).name = <<"p">>
         /\ QuestionFirst(r.input) =>
              /\ RootOf(r).type = "Conditional"
              /\ EndsWithPipe(r.input) =>
                   /\ RootOf(r).children[3].type = "BindingPipe"
                   /\ RootOf(r).children[3].name = <<"p">>

\* parseBinding of `c ? x : y | p`: a Conditional whose false branch is the
\* pipe p of y
C21_Witness ==
  /\ HasResult
  /\ Last.op = "parseBinding"
  /\ Last.input = ConditionalThenPipe
  /\ Last.errorsAtReturn = << >>
  /\ Last.ast.type = "Conditional"
  /\ Last.ast.children[3].type = "BindingPipe"
  /\ Last.ast.children[3].children[1].name = <<"y">>

\* parseBinding of `c + b | p`: the pipe p of the whole sum
C21_WitnessBinary ==
  /\ HasResult
  /\ Last.op = "parseBinding"
  /\ Last.input = Concat(<<ConditionWord, PlusWord, PipeWord>>)
  /\ Last.ast.type = "BindingPipe"
  /\ Last.ast.children[1].type = "Binary"

\* the calls of error made during call k, as the parser recorded them
SkipsOf(k) == { results[k].skips[i] : i \in DOMAIN results[k].skips }

\* tok is a recovery point for the call of error recorded in s
IsRecoveryPoint(s, tok) ==
  \/ tok = EOF
  \/ IsCharacter(tok, ";")
  \/ IsOperator(tok, <<"|">>)
  \/ s.rparensExpected > 0 /\ IsCharacter(tok, ")")
  \/ s.rbracesExpected > 0 /\ IsCharacter(tok, "}")
  \/ s.rbracketsExpected > 0 /\ IsCharacter(tok, "]")
  \/ s.context = Writable /\ IsOperator(tok, <<"=">>)

IsClosing(tok) == IsCharacter(tok, ")") \/ IsCharacter(tok, "}") \/ IsCharacter(tok, "]")

\* the tokens of the lexer's Error type among those the call skipped
LexerErrorsSkipped(s) == SelectSeq(s.skipped, IsError)

\* where the call stopped: at a recovery point, having skipped none
StopsAtFirstRecoveryPoint(s) ==
  /\ IsRecoveryPoint(s, s.next)
  /\ \A i \in DOMAIN s.skipped : ~IsRecoveryPoint(s, s.skipped[i])

(***************************************************************************)
(* C22: every call of _ParseAST.error appends exactly one error for the    *)
(* failure and then skips tokens so that, when it returns, the next token  *)
(* is end of input, `;`, `|`, a closing `)` / `}` / `]` whose expectation  *)
(* counter is positive, or `=` while the Writable context flag is set; no  *)
(* token of one of those kinds is skipped over, and a closing symbol whose *)
(* counter is zero is skipped.  As written: the call appends one error.    *)
(***************************************************************************)
C22_ErrorAppendsOneAndSkips ==
  \A k \in DOMAIN results : \A s \in SkipsOf(k) :
    /\ Len(s.errors) = 1
    /\ s.errors[1].message = s.message
    /\ StopsAtFirstRecoveryPoint(s)

\* C22 as the code has it: the call appends the error for the failure
\* first, and after it one error for every token of the lexer's Error type
\* that it skips; it stops at the first recovery point, which is never a
\* closing symbol whose counter is zero nor an `=` outside a Writable context.
C22_ErrorAppendsOnePerLexerErrorAndSkips ==
  \A k \in DOMAIN results : \A s \in SkipsOf(k) :
    /\ Len(s.errors) = 1 + Len(LexerErrorsSkipped(s))
    /\ s.errors[1].message = s.message
    /\ \A i \in DOMAIN LexerErrorsSkipped(s) :
         s.errors[i + 1].message = LexerErrorsSkipped(s)[i].strValue[1]
    /\ StopsAtFirstRecoveryPoint(s)

\* `(a.@)`: the call of error made where the property name is expected
\* skips the character the lexer rejected, adding its error, and stops at the
\* `)` that the parenthesised expression expects
C22_Witness ==
  /\ HasResult
  /\ Last.input = <<"(", "a", ".", "@", ")">>
  /\ \E s \in SkipsOf(Len(results)) :
       /\ s.message = UnexpectedToken
       /\ s.context = Writable
       /\ s.rparensExpected > 0
       /\ Len(s.skipped) = 1
       /\ IsError(s.skipped[1])
       /\ Len(s.errors) = 2
       /\ IsCharacter(s.next, ")")

\* `a.)=`: no parenthesis is open, so the `)` is skipped, and the call stops
\* at the `=` because the property name is read in a Writable context
C22_WitnessWritable ==
  /\ HasResult
  /\ Last.input = <<"a", ".", ")", "=">>
  /\ \E s \in SkipsOf(Len(results)) :
       /\ s.context = Writable
       /\ s.rparensExpected = 0
       /\ Len(s.skipped) = 1
       /\ IsCharacter(s.skipped[1], ")")
       /\ IsOperator(s.next, <<"=">>)

\* `)=`: outside a Writable context the `=` is skipped as well
C22_WitnessNotWritable ==
  /\ HasResult
  /\ Last.input = <<")", "=">>
  /\ \E s \in SkipsOf(Len(results)) :
       /\ s.context = ContextNone
       /\ Len(s.skipped) = 2
       /\ s.next = EOF

(***************************************************************************)
(* C23: the Writable parse-context flag is set only while a writable       *)
(* sub-parse (the identifier step of parseAccessMember, or                 *)
(* parseKeyedReadOrWrite) is executing: after every withContext call       *)
(* returns, including calls nested inside another Writable context such as *)
(* `a[b]`, the flag has the value it had before that call, so outside such *)
(* sub-parses skip never stops at an `=` token.  Every parse starts with   *)
(* the flag clear, so when the parse returns, all its withContext calls    *)
(* having returned, the flag is clear again.                               *)
(***************************************************************************)
C23_WritableRestored ==
  \A k \in DOMAIN results : results[k].context = ContextNone

\* parseBinding of `a[b]` returns without an error and with the flag set
C23_FlagLeftSet ==
  /\ HasResult
  /\ Last.op = "parseBinding"
  /\ Last.input = <<"a", "[", "b", "]">>
  /\ Last.errorsAtReturn = << >>
  /\ Last.context = Writable

(***************************************************************************)
(* C24: parseTemplateBindings terminates on every finite token sequence:   *)
(* its binding loop never completes an iteration with the token index      *)
(* unchanged, so the list of bindings and the list of errors stay finite   *)
(* (also for inputs such as `a[b]; = c` where an `=` follows a keyed       *)
(* access).                                                                *)
(***************************************************************************)
C24_TemplateBindingsTerminate ==
  \A k \in DOMAIN results :
    results[k].op = "parseTemplateBindings" => ~results[k].hangs

\* parseTemplateBindings of `a[b]; = c `: an iteration of the binding loop
\* ends where it began, at the `=`
C24_LoopRepeats ==
  /\ HasResult
  /\ Last.op = "parseTemplateBindings"
  /\ Last.input = Concat(<<KeyedWord, <<";">>, <<" ">>, <<"=">>>>)
  /\ Last.hangs
  /\ \E s \in SkipsOf(Len(results)) :
       /\ s.context = Writable
       /\ s.skipped = << >>
       /\ IsOperator(s.next, <<"=">>)

\* the results of the calls that run parseChain
RunsParseChain(r) ==
  r.op \in {"parseAction", "parseBinding", "parseSimpleBinding", "parseInterpolation",
            "parseInterpolationExpression"}

(***************************************************************************)
(* C25: parseChain terminates on every finite token sequence in both       *)
(* action and binding mode: each iteration of its loop either advances the *)
(* token index or leaves the loop, including when error recovery stops at  *)
(* the very token that caused the error.  Every call returns, and as every *)
(* iteration but the last consumes a token, a chain has no more            *)
(* expressions than the input has characters.                              *)
(***************************************************************************)
C25_ParseChainTerminates ==
  \A k \in DOMAIN results :
    LET r == results[k]
    IN RunsParseChain(r) =>
         /\ ~r.hangs
         /\ r.ast.type = "Chain" => Len(r.ast.children) <= Len(r.input)

\* parseAction of `a[b];=`: the call of error that parseChain makes at the
\* `=` skips nothing, the loop is left and the chain of the keyed read and
\* an empty expression is returned
C25_Witness ==
  /\ HasResult
  /\ Last.op = "parseAction"
  /\ Last.input = <<"a", "[", "b", "]", ";", "=">>
  /\ ~Last.hangs
  /\ Last.ast.type = "Chain"
  /\ Len(Last.ast.children) = 2
  /\ Last.ast.children[2].type = "EmptyExpr"
  /\ Len(Last.skips) = 2
  /\ \A i \in DOMAIN Last.skips :
       /\ Last.skips[i].message = UnexpectedToken
       /\ Last.skips[i].skipped = << >>
       /\ IsOperator(Last.skips[i].next, <<"=">>)

\* piece covers input from its start to its end, with `text` where the text
\* lies inside it
CoversInput(input, piece, textStart, textEnd) ==
  /\ 0 <= piece.start
  /\ piece.start <= textStart
  /\ textStart <= textEnd
  /\ textEnd <= piece.end
  /\ piece.end <= Len(input)
  /\ piece.text = Substring(input, textStart, textEnd)

Scoped == target.defined /\ pc # "bind"

\* the names declared in the scope of t
NamesDeclaredIn(t) == {DeclarationsIn(t)[k].name : k \in DOMAIN DeclarationsIn(t)}

(***************************************************************************)
(* C26: within one Scope a name is bound to the first entity declared      *)
(* under it in visiting order and is never rebound: after any sequence of  *)
(* variable and reference declarations, namedEntities[name] is the first   *)
(* declared entity of that name, and later declarations of the same name   *)
(* leave the scope unchanged.                                              *)
(***************************************************************************)
C26_FirstDeclarationWins ==
  Scoped =>
    \A t \in TemplateIds \union {RootKey} :
      /\ MapHas(scope, t)
      /\ DOMAIN scope[t].namedEntities = NamesDeclaredIn(t)
      /\ \A name \in NamesDeclaredIn(t) : scope[t].namedEntities[name] = DeclaredAs(t, name)
      /\ \A k \in DOMAIN DeclarationsIn(t) :
           MaybeDeclare(scope[t].namedEntities, DeclarationsIn(t)[k]) = scope[t].namedEntities

\* a scope in which a name is declared twice holds the first declaration
C26_Witness ==
  /\ Scoped
  /\ \E t \in TemplateIds \union {RootKey} :
       LET ds == DeclarationsIn(t)
       IN /\ Len(ds) = 2
          /\ ds[1].name = ds[2].name
          /\ ds[1] # ds[2]
          /\ MapHas(scope, t)
          /\ scope[t].namedEntities[ds[1].name] = ds[1]

\* the entities of a sequence of declarations
EntitiesOf(things) == {things[k] : k \in DOMAIN things}

\* the entities a scope holds
NamedEntitiesOf(s) == {scope[s].namedEntities[name] : name \in DOMAIN scope[s].namedEntities}

\* node n lies inside Template t
IsInside(n, t) ==
  LET RECURSIVE Up(_)
      Up(m) == m # 0 /\ (EnclosingTemplate(m) = t \/ Up(EnclosingTemplate(m)))
  IN Up(n)

\* the targets of the reads of `name` on the implicit receiver in the
\* expressions attached to node n
TargetsOn(n, name) ==
  UNION {{GetExpressionTarget(AstKey(item.id, path)) :
            path \in {p \in Paths(item.value) :
                        /\ IsImplicitProperty(SubAst(item.value, p))
                        /\ SubAst(item.value, p).name = name}} :
         item \in BoundItems(n)}

VariableNames(t) == {Nodes[t].variables[k].name : k \in DOMAIN Nodes[t].variables}

(***************************************************************************)
(* C28: expressions attached to a Template node's own inputs, outputs and  *)
(* template attributes are resolved against the scope that contains the    *)
(* template, not the template's child scope: a name there that matches     *)
(* only one of that template's own let- variables gets no expression       *)
(* target (getExpressionTarget is null).                                   *)
(***************************************************************************)
C28_TemplateBindingsUseContainingScope ==
  Returned =>
    \A t \in TemplateIds : \A name \in Names :
      /\ TargetsOn(t, name) = {ScopeLookup(scope, EnclosingTemplate(t), name)}
      /\ TargetsOn(t, name) \cap EntitiesOf(Nodes[t].variables) = {}
      /\ (/\ name \in VariableNames(t)
          /\ ScopeLookup(scope, EnclosingTemplate(t), name) = NullEntity)
           => TargetsOn(t, name) = {NullEntity}

\* a Template whose only declaration is let-a, with a bound text inside:
\* the text's read of a is the variable, the reads of a on the template's
\* own input, output and template attribute have no target
C28_Witness ==
  /\ Returned
  /\ \E t \in TemplateIds : \E n \in NodeIds :
       /\ Nodes[n].kind = "BoundText"
       /\ Nodes[n].parent = t
       /\ Nodes[t].parent = 0
       /\ Len(Nodes[t].variables) = 1 /\ Nodes[t].variables[1].name = "a"
       /\ Nodes[t].references = << >>
       /\ TargetsOn(n, "a") = {Nodes[t].variables[1]}
       /\ TargetsOn(t, "a") = {NullEntity}

(***************************************************************************)
(* C30: inside a Template's scope the template's own let- variables are    *)
(* declared before anything on its descendants, so when a let- variable    *)
(* and a `#ref` on a descendant element in the same scope share a name,    *)
(* lookups of that name inside the template resolve to the variable,       *)
(* independent of where in the children the reference or the expression    *)
(* appears.                                                                *)
(***************************************************************************)
C30_VariableBeforeDescendantReference ==
  Scoped =>
    \A t \in TemplateIds : \A name \in VariableNames(t) :
      LET variable == DeclaredAs(t, name)
      IN /\ variable \in EntitiesOf(Nodes[t].variables)
         /\ scope[t].namedEntities[name] = variable
         /\ ScopeLookup(scope, t, name) = variable
         /\ Returned =>
              \A n \in NodeIds :
                EnclosingTemplate(n) = t => TargetsOn(n, name) \subseteq {variable}

\* a Template with let-a, an element with #a inside it and a bound text in
\* that element: the reads of a on the element and in the text are the
\* variable
C30_Witness ==
  /\ Returned
  /\ \E t \in TemplateIds : \E e, n \in NodeIds :
       /\ Nodes[e].kind = "Element" /\ Nodes[e].parent = t
       /\ Nodes[n].kind = "BoundText" /\ Nodes[n].parent = e
       /\ Len(Nodes[t].variables) = 1 /\ Nodes[t].variables[1].name = "a"
       /\ Len(Nodes[e].references) = 1 /\ Nodes[e].references[1].name = "a"
       /\ TargetsOn(e, "a") = {Nodes[t].variables[1]}
       /\ TargetsOn(n, "a") = {Nodes[t].variables[1]}
       /\ Nodes[e].references[1] \notin NamedEntitiesOf(t)

====
